---------------------------- MODULE Spec2Model ----------------------------
(***************************************************************************)
(* N-body gravitational integrator with collision handling                 *)
(* (Harshaan2004/Physics-Engine).                                          *)
(*                                                                         *)
(* The 3D collision simulator (src/unnamed/part_002) is modelled in full:  *)
(* Object3D, CheckCollision, ResolveCollision, CreateObjects, the frame    *)
(* loop of main and KeyCallback.  The trail handling of the solar-system   *)
(* demo (src/unnamed/part_003) and of the 2D backup simulator is modelled  *)
(* next to it.                                                             *)
(*                                                                         *)
(* The program computes in IEEE single precision.  The model computes in   *)
(* fixed point: every real quantity is an integer number of a stated unit, *)
(* every division rounds toward zero (sign-symmetric, as IEEE rounding     *)
(* is), and a NaN vector is a value of its own that every operation        *)
(* propagates.                                                             *)
(*                                                                         *)
(*   quantity       unit                                                   *)
(*   position       1/PosScale   world units      (1e-4)                   *)
(*   velocity       1/PosScale   world units / s  (1e-4)                   *)
(*   acceleration   1/AccScale   world units / s2 (1e-2)                   *)
(*   force          1/AccScale   force units      (1e-2)                   *)
(*   mass           1/MassScale  mass units       (1e-1)                   *)
(*   time           1/TimeScale  seconds          (1e-5)                   *)
(*   unit vectors   1/UnitScale                   (1e-4)                   *)
(***************************************************************************)
EXTENDS Integers, Sequences, FiniteSets, TLC

VARIABLES
    objects,       \* part_002 main: std::vector<Object3D> objects
    isPaused,      \* part_002: bool isPaused
    trailCounter,  \* part_002 Object3D::updatePosition: static int trailCounter
    randState,     \* state of the C library generator behind rand()
    argOrder,      \* order in which the build evaluates function arguments
    lastTick,      \* history: what the last frame's physics block did
    frames,        \* history: number of frames part_002 has run
    resets,        \* history: per reset so far, whether it came while paused
    objects3,      \* part_003 main: std::vector<Object3D> objects
    isPaused3,     \* part_003: bool isPaused
    frames3,       \* history: number of frames part_003 has run
    bodies,        \* 2D backup simulator main: std::vector<Body> bodies
    framesB,       \* history: number of frames the 2D backup has run
    input,         \* the arguments of a direct call of a function
    output,        \* <<>> before the direct call, then <<its result>>
    pc,            \* part_002 main: where it is in the frame loop
    physicsStep,   \* part_002 main: int step of the physics block
    polled,        \* history: keys glfwPollEvents has delivered this frame
    resets3,       \* history: per R key of part_003, whether it was paused
    objects4,      \* part_004 main: std::vector<Object> objects
    frames4        \* history: number of frames part_004 has run

vars == <<objects, isPaused, trailCounter, randState, argOrder, lastTick,
          frames, resets, objects3, isPaused3, frames3, bodies, framesB,
          input, output, pc, physicsStep, polled, resets3,
          objects4, frames4>>

----------------------------------------------------------------------------
(* Units of the fixed-point representation.                                *)

PosScale == 10000
AccScale == 100
MassScale == 10
TimeScale == 100000
UnitScale == 10000

----------------------------------------------------------------------------
(* Scalar arithmetic.                                                      *)

Abs(a) == IF a < 0 THEN -a ELSE a

Sign(a) == IF a < 0 THEN -1 ELSE IF a > 0 THEN 1 ELSE 0

Min(a, b) == IF b < a THEN b ELSE a

Max(a, b) == IF a < b THEN b ELSE a

\* a / b rounded toward zero.
Quot(a, b) == Sign(a) * Sign(b) * (Abs(a) \div Abs(b))

\* The model checker evaluates an operator's arguments when they are first
\* used.  Strict(v) uses v, so that a loop computes its state step by step.
Strict(v) == v = v

\* <<floor(a*b/c), (a*b) mod c>> for a, b >= 0 and 0 < c < 2^22, computed
\* without forming a*b (long multiplication by the base-256 digits of b), so
\* that it stays in range.
RECURSIVE MulDivMod(_, _, _)
MulDivMod(a, b, c) ==
    IF b = 0 THEN <<0, 0>>
    ELSE LET h == MulDivMod(a, b \div 256, c)
             t == 256 * h[2] + (b % 256) * (a % c)
         IN  <<256 * h[1] + (b % 256) * (a \div c) + t \div c, t % c>>

\* a * b / c rounded toward zero.
MulQuot(a, b, c) ==
    IF Abs(a) <= 46340 /\ Abs(b) <= 46340 THEN Quot(a * b, c)
    ELSE Sign(a) * Sign(b) * Sign(c) * MulDivMod(Abs(a), Abs(b), Abs(c))[1]

\* floor(sqrt(n)) for n >= 0, by Newton's iteration downward from x, an
\* upper bound of it.
RECURSIVE SqrtFrom(_, _)
SqrtFrom(n, x) ==
    LET y == (x + n \div x) \div 2
    IN  IF y >= x THEN x ELSE SqrtFrom(n, y)

Sqrt(n) ==
    IF n = 0 THEN 0
    ELSE IF n < 65536 THEN SqrtFrom(n, 256)
    ELSE IF n < 16777216 THEN SqrtFrom(n, 4096)
    ELSE SqrtFrom(n, 46340)

----------------------------------------------------------------------------
(* glm::vec3.  nan marks a vector whose components are NaN.                *)

Vec(x, y, z) == [x |-> x, y |-> y, z |-> z, nan |-> FALSE]

NaNVec == [x |-> 0, y |-> 0, z |-> 0, nan |-> TRUE]

ZeroVec == Vec(0, 0, 0)

IsNaN(v) == v.nan

VAdd(a, b) ==
    IF IsNaN(a) \/ IsNaN(b) THEN NaNVec ELSE Vec(a.x + b.x, a.y + b.y, a.z + b.z)

VSub(a, b) ==
    IF IsNaN(a) \/ IsNaN(b) THEN NaNVec ELSE Vec(a.x - b.x, a.y - b.y, a.z - b.z)

VNeg(a) == IF IsNaN(a) THEN NaNVec ELSE Vec(-a.x, -a.y, -a.z)

\* v * (n / d)
VScale(v, n, d) ==
    IF IsNaN(v) THEN NaNVec
    ELSE Vec(MulQuot(v.x, n, d), MulQuot(v.y, n, d), MulQuot(v.z, n, d))

Dot(a, b) == a.x * b.x + a.y * b.y + a.z * b.z

MaxAbs(v) == Max(Abs(v.x), Max(Abs(v.y), Abs(v.z)))

\* Before a vector is squared it is scaled by a power of two, up or down, so
\* that its largest component lies in (13000, 26000]: the squares stay in
\* range and keep their relative precision (the model's counterpart of the
\* float exponent).  UpFactor and DownFactor are the two powers of two.
RECURSIVE UpFactor(_, _)
UpFactor(m, p) == IF m = 0 \/ 2 * m * p > 26000 THEN p ELSE UpFactor(m, 2 * p)

RECURSIVE DownFactor(_, _)
DownFactor(m, d) == IF m \div d <= 26000 THEN d ELSE DownFactor(m, 2 * d)

ScaledBy(v, up, down) ==
    Vec(Quot(v.x * up, down), Quot(v.y * up, down), Quot(v.z * up, down))

\* glm::length of a finite vector.
Length(v) ==
    LET up == UpFactor(MaxAbs(v), 1)
        down == DownFactor(MaxAbs(v), 1)
        w == ScaledBy(v, up, down)
    IN  MulQuot(Sqrt(Dot(w, w)), down, up)

\* glm::normalize: v * inversesqrt(dot(v, v)), in units of 1/UnitScale.  For
\* the zero vector it is 0 * infinity, a NaN in every component.
Normalize(v) ==
    IF IsNaN(v) \/ (v.x = 0 /\ v.y = 0 /\ v.z = 0) THEN NaNVec
    ELSE LET w == ScaledBy(v, UpFactor(MaxAbs(v), 1), DownFactor(MaxAbs(v), 1))
             len == Sqrt(Dot(w, w))
         IN  Vec(Quot(w.x * UnitScale, len), Quot(w.y * UnitScale, len),
                 Quot(w.z * UnitScale, len))

----------------------------------------------------------------------------
(* Program constants of part_002.                                          *)

\* float G = 6.674f, in thousandths.
G == 6674

\* The unit of G: G / GScale is the value of the program's G.
GScale == 1000

\* const float MAX_TIMESTEP = 0.001f, in time units (0.001 s = 100 * 1e-5 s).
MAX_TIMESTEP == 100

\* Object3D::maxTrailLength
maxTrailLength == 1000

\* the trail is appended on every TrailEvery-th call of updatePosition
TrailEvery == 3

\* ResolveCollision: (dist > 0.001f), in position units
CoincidentDist == 10

\* ResolveCollision: float e = 0.8f, in tenths
Restitution == 8

\* ResolveCollision: velocity *= 0.98f, in hundredths
Damping == 98

----------------------------------------------------------------------------
(* class Object3D of part_002.                                             *)

\* Object3D::Object3D.  No argument is validated.
Object3D(pos, vel, m, col, r, isFixed) ==
    [position |-> pos, velocity |-> vel, mass |-> m, color |-> col,
     radius |-> r, fixed |-> isFixed, acceleration |-> ZeroVec, trail |-> <<>>]

\* force / mass, in acceleration units.  A division by a zero mass gives
\* infinite or NaN components, which the model does not tell apart.
ForceOverMass(force, mass) ==
    IF mass = 0 THEN NaNVec ELSE VScale(force, MassScale, mass)

\* applyForce without the division by the mass: acceleration += force
applyForce_WithoutMass(obj, force) ==
    IF obj.fixed THEN obj
    ELSE [obj EXCEPT !.acceleration = VAdd(@, ForceOverMass(force, MassScale))]

\* Object3D::applyForce
applyForce(obj, force) ==
    IF obj.fixed THEN obj
    ELSE [obj EXCEPT !.acceleration = VAdd(@, ForceOverMass(force, obj.mass))]

\* PushTrail without the erase of the oldest entry
PushTrail_WithoutErase(trail, position, maxLen) == Append(trail, position)

\* The trail after trail.push_back(position) and the erase of the oldest
\* entry once the size exceeds maxLen.
PushTrail(trail, position, maxLen) ==
    LET pushed == Append(trail, position)
    IN  IF Len(pushed) > maxLen THEN Tail(pushed) ELSE pushed

\* acceleration units times time units in one velocity unit
AccTimePerVel == (AccScale * TimeScale) \div PosScale

\* ActualDt without the clamp: float actualDt = dt
ActualDt_Unclamped(dt) == dt

\* The timestep updatePosition integrates with.
ActualDt(dt) == Min(dt, MAX_TIMESTEP)

\* updatePosition without the test of fixed
updatePosition_OfFixedToo(obj, dt, paused, counter) ==
    IF paused THEN <<obj, counter>>
    ELSE LET vel == VAdd(obj.velocity,
                         VScale(obj.acceleration, Min(dt, MAX_TIMESTEP),
                                (AccScale * TimeScale) \div PosScale))
             pos == VAdd(obj.position,
                         VScale(vel, Min(dt, MAX_TIMESTEP), TimeScale))
         IN  <<[obj EXCEPT !.velocity = vel, !.position = pos,
                           !.acceleration = ZeroVec],
               counter + 1>>

\* updatePosition without the final acceleration = glm::vec3(0.0f)
updatePosition_KeepingAcceleration(obj, dt, paused, counter) ==
    IF obj.fixed \/ paused THEN <<obj, counter>>
    ELSE LET vel == VAdd(obj.velocity,
                         VScale(obj.acceleration, Min(dt, MAX_TIMESTEP),
                                (AccScale * TimeScale) \div PosScale))
             pos == VAdd(obj.position,
                         VScale(vel, Min(dt, MAX_TIMESTEP), TimeScale))
         IN  <<[obj EXCEPT !.velocity = vel,
                           !.position = pos,
                           !.trail = IF (counter + 1) % 3 = 0
                                     THEN Append(@, pos)
                                     ELSE @],
               counter + 1>>

\* updatePosition moving the body with the velocity it had before the call
updatePosition_PositionFirst(obj, dt, paused, counter) ==
    IF obj.fixed \/ paused THEN <<obj, counter>>
    ELSE <<[obj EXCEPT !.velocity =
                           VAdd(@, VScale(obj.acceleration,
                                          Min(dt, MAX_TIMESTEP),
                                          (AccScale * TimeScale) \div PosScale)),
                       !.position =
                           VAdd(@, VScale(obj.velocity, Min(dt, MAX_TIMESTEP),
                                          TimeScale)),
                       !.trail = IF (counter + 1) % 3 = 0
                                 THEN Append(@, VAdd(obj.position,
                                                     VScale(obj.velocity,
                                                            Min(dt, MAX_TIMESTEP),
                                                            TimeScale)))
                                 ELSE @,
                       !.acceleration = ZeroVec],
             counter + 1>>

\* Object3D::updatePosition.  counter is the static trailCounter before the
\* call; the result is the object and the counter after it.
updatePosition(obj, dt, paused, counter) ==
    IF obj.fixed \/ paused THEN <<obj, counter>>
    ELSE LET actualDt == ActualDt(dt)
             vel == VAdd(obj.velocity,
                         VScale(obj.acceleration, actualDt, AccTimePerVel))
             pos == VAdd(obj.position, VScale(vel, actualDt, TimeScale))
             cnt == counter + 1
         IN  <<[obj EXCEPT !.velocity = vel,
                           !.position = pos,
                           !.trail = IF cnt % TrailEvery = 0
                                     THEN PushTrail(@, pos, maxTrailLength)
                                     ELSE @,
                           !.acceleration = ZeroVec],
               cnt>>

\* GravitationalForce pointing away from other: direction = position -
\* other.position
GravitationalForce_Repelling(self, other) ==
    LET direction == VSub(self.position, other.position)
    IN  IF IsNaN(direction) THEN NaNVec
        ELSE VScale(Normalize(direction),
                    MulQuot(MulQuot(G * self.mass,
                                    ((PosScale \div MassScale)
                                        * (PosScale \div MassScale) * AccScale)
                                        \div 1000,
                                    Max(Length(direction),
                                        (self.radius + other.radius) * 2)),
                            other.mass,
                            Max(Length(direction),
                                (self.radius + other.radius) * 2)),
                    UnitScale)

\* The factor between G * m * m / d^2 in the model's units and force units.
ForceUnits ==
    ((PosScale \div MassScale) * (PosScale \div MassScale) * AccScale) \div GScale

\* Object3D::calculateGravitationalForce: the force on self from other (the
\* vector handed to applyForce).  The magnitude G * mass * other.mass /
\* (distance * distance) is formed in two divisions by distance, so that no
\* intermediate leaves the integer range.
GravitationalForce(self, other) ==
    LET direction == VSub(other.position, self.position)
    IN  IF IsNaN(direction) THEN NaNVec
        ELSE LET minDistance == (self.radius + other.radius) * 2
                 distance == Max(Length(direction), minDistance)
                 forceMagnitude ==
                     MulQuot(MulQuot(G * self.mass, ForceUnits, distance),
                             other.mass, distance)
             IN  VScale(Normalize(direction), forceMagnitude, UnitScale)

----------------------------------------------------------------------------
(* Collision detection and response of part_002.                           *)

\* CheckCollision.  A comparison with a NaN distance is false.
CheckCollision(a, b) ==
    LET delta == VSub(b.position, a.position)
    IN  /\ ~IsNaN(delta)
        /\ Length(delta) <= a.radius + b.radius

\* ResolveCollision: glm::dot(relativeVelocity, collisionNormal), in velocity
\* units.
VelAlongNormal(relativeVelocity, normal) ==
    MulQuot(relativeVelocity.x, normal.x, UnitScale)
    + MulQuot(relativeVelocity.y, normal.y, UnitScale)
    + MulQuot(relativeVelocity.z, normal.z, UnitScale)

\* ResolveCollision: the collision normal.
CollisionNormal(delta, dist) ==
    IF dist > CoincidentDist THEN Normalize(delta) ELSE Vec(UnitScale, 0, 0)

\* ImpulsePerMass without restitution: j = -velAlongNormal / (invMassA +
\* invMassB)
ImpulsePerMass_Inelastic(velAlongNormal, mine, theirs, otherFixed) ==
    IF otherFixed THEN -velAlongNormal
    ELSE MulQuot(-velAlongNormal, theirs, mine + theirs)

\* ResolveCollision: j * invMass of one body, in velocity units, for the
\* body of inverse mass 1/mine (0 when fixed) against the body of inverse
\* mass 1/theirs (0 when fixed).  j = -(1 + e) * velAlongNormal /
\* (invMassA + invMassB), so j * invMass is -(1 + e) * velAlongNormal times
\* theirs / (mine + theirs), or times 1 when the other body is fixed.
ImpulsePerMass(velAlongNormal, mine, theirs, otherFixed) ==
    IF otherFixed THEN Quot(-(10 + Restitution) * velAlongNormal, 10)
    ELSE MulQuot(-(10 + Restitution) * velAlongNormal, theirs,
                 10 * (mine + theirs))

\* velocity *= 0.98f
Damp(v) == VScale(v, Damping, 100)

\* Separate moving a only, by its share of the overlap
Separate_MovingOnlyA(a, b, separation) ==
    IF a.fixed THEN <<a.position, b.position>>
    ELSE <<VSub(a.position, VScale(separation, b.mass, a.mass + b.mass)),
           b.position>>

\* Separate with the overlap split in halves, whatever the masses
Separate_InHalves(a, b, separation) ==
    IF ~a.fixed /\ ~b.fixed
    THEN <<VSub(a.position, VScale(separation, 1, 2)),
           VAdd(b.position, VScale(separation, 1, 2))>>
    ELSE IF a.fixed /\ ~b.fixed
    THEN <<a.position, VAdd(b.position, separation)>>
    ELSE IF ~a.fixed /\ b.fixed
    THEN <<VSub(a.position, separation), b.position>>
    ELSE <<a.position, b.position>>

\* ResolveCollision: the positions <<a.position, b.position>> after the
\* separation of an overlapping pair.
Separate(a, b, separation) ==
    IF ~a.fixed /\ ~b.fixed
    THEN LET totalMass == a.mass + b.mass
         IN  IF totalMass = 0 THEN <<NaNVec, NaNVec>>
             ELSE <<VSub(a.position, VScale(separation, b.mass, totalMass)),
                    VAdd(b.position, VScale(separation, a.mass, totalMass))>>
    ELSE IF a.fixed /\ ~b.fixed
    THEN <<a.position, VAdd(b.position, separation)>>
    ELSE IF ~a.fixed /\ b.fixed
    THEN <<VSub(a.position, separation), b.position>>
    ELSE <<a.position, b.position>>

\* Impulse without the early return for a separating pair
Impulse_AlsoWhenSeparating(a, b, normal) ==
    LET velAlongNormal == VelAlongNormal(VSub(b.velocity, a.velocity), normal)
    IN  <<IF a.fixed THEN a.velocity
          ELSE Damp(VSub(a.velocity,
                         VScale(normal,
                                ImpulsePerMass(velAlongNormal, a.mass, b.mass,
                                               b.fixed),
                                UnitScale))),
          IF b.fixed THEN b.velocity
          ELSE Damp(VAdd(b.velocity,
                         VScale(normal,
                                ImpulsePerMass(velAlongNormal, b.mass, a.mass,
                                               a.fixed),
                                UnitScale)))>>

\* ResolveCollision: the velocities <<a.velocity, b.velocity>> after the
\* impulse and the damping, or unchanged when the pair is separating.
Impulse(a, b, normal) ==
    LET relativeVelocity == VSub(b.velocity, a.velocity)
    IN  IF IsNaN(relativeVelocity)
        THEN <<IF a.fixed THEN a.velocity ELSE NaNVec,
               IF b.fixed THEN b.velocity ELSE NaNVec>>
        ELSE LET velAlongNormal == VelAlongNormal(relativeVelocity, normal)
             IN  IF velAlongNormal > 0 THEN <<a.velocity, b.velocity>>
                 ELSE <<IF a.fixed THEN a.velocity
                        ELSE Damp(VSub(a.velocity,
                                 VScale(normal,
                                        ImpulsePerMass(velAlongNormal, a.mass,
                                                       b.mass, b.fixed),
                                        UnitScale))),
                        IF b.fixed THEN b.velocity
                        ELSE Damp(VAdd(b.velocity,
                                 VScale(normal,
                                        ImpulsePerMass(velAlongNormal, b.mass,
                                                       a.mass, a.fixed),
                                        UnitScale)))>>

\* ResolveCollision: a and b with the positions pos and the velocities vel
Moved(a, b, pos, vel) ==
    <<[a EXCEPT !.position = pos[1], !.velocity = vel[1]],
      [b EXCEPT !.position = pos[2], !.velocity = vel[2]]>>

\* ResolveCollision: the branch "if (overlap > 0)", for the collision
\* normal and the overlap found
ResolveOverlap(a, b, collisionNormal, overlap) ==
    Moved(a, b,
          Separate(a, b, VScale(collisionNormal, overlap, UnitScale)),
          Impulse(a, b, collisionNormal))

\* ResolveCollision: from the distance of the centres on
ResolveAt(a, b, delta, dist) ==
    IF a.radius + b.radius - dist > 0
    THEN ResolveOverlap(a, b, CollisionNormal(delta, dist),
                        a.radius + b.radius - dist)
    ELSE <<a, b>>

\* ResolveCollision(a, b): the pair <<a, b>> after the call.
ResolveCollision(a, b) ==
    LET delta == VSub(b.position, a.position)
    IN  IF IsNaN(delta) THEN <<a, b>> ELSE ResolveAt(a, b, delta, Length(delta))

----------------------------------------------------------------------------
(* rand() of the C library: a linear congruential generator.  srand seeds  *)
(* it once, in main, with the wall-clock time.                             *)

RAND_MAX == 32767

RandNext(state) == (state * 75 + 74) % 65537

\* the generator's state after k further calls of rand(), k <= 7
RandAfter(state, k) ==
    IF k = 0 THEN state
    ELSE IF k = 1 THEN RandNext(state)
    ELSE IF k = 2 THEN RandNext(RandNext(state))
    ELSE IF k = 3 THEN RandNext(RandNext(RandNext(state)))
    ELSE IF k = 4 THEN RandNext(RandNext(RandNext(RandNext(state))))
    ELSE IF k = 5 THEN RandNext(RandNext(RandNext(RandNext(RandNext(state)))))
    ELSE IF k = 6
    THEN RandNext(RandNext(RandNext(RandNext(RandNext(RandNext(state))))))
    ELSE RandNext(RandNext(RandNext(RandNext(RandNext(RandNext(
             RandNext(state)))))))

\* the value the k-th further call of rand() returns
Rand(state, k) == RandAfter(state, k) % (RAND_MAX + 1)

----------------------------------------------------------------------------
(* CreateObjects of part_002.                                              *)

\* glm::vec3 colours, in thousandths
Color(r, g, b) == <<r, g, b>>

\* sqrt(G * m / r) in velocity units, for a mass m and a length r
OrbitSpeed(m, r) ==
    Sqrt(MulQuot(G * m, PosScale, r)) * (PosScale \div Sqrt(GScale * MassScale))

\* cos and sin of i * 2 * pi / 8 in units of 1/UnitScale
Cos8(i) == <<10000, 7071, 0, -7071, -10000, -7071, 0, 7071>>[i + 1]

Sin8(i) == <<0, 7071, 10000, 7071, 0, -7071, -10000, -7071>>[i + 1]

sunMass == 5000 * MassScale

\* The value of rand() in the n-th argument (n = 1 .. 5: mass, three colour
\* components, radius) of an asteroid's emplace_back, which the build
\* evaluates left to right ("ltr") or right to left ("rtl"), after used
\* earlier calls.
ArgRand(state, order, used, n) ==
    Rand(state, used + (IF order = "ltr" THEN n ELSE 6 - n))

\* Asteroid with a mass spread around zero: (rand / RAND_MAX - 0.5) * 1.0
Asteroid_MassAroundZero(state, order, a) ==
    Object3D(Vec(MulQuot(95000, Cos8(a), UnitScale), 0,
                 MulQuot(95000, Sin8(a), UnitScale)),
             ZeroVec,
             MulQuot(10, ArgRand(state, order, 2, 1), RAND_MAX) - 5,
             Color(500, 400, 300),
             500 + MulQuot(500, ArgRand(state, order, 2, 5), RAND_MAX),
             FALSE)

\* The a-th asteroid (a = 0 .. 7) of the belt, built with the generator in
\* the given state.  It takes seven values of rand(): one for asteroidR, one
\* for asteroidV and five in the arguments of emplace_back.
Asteroid(state, order, a) ==
    LET asteroidR == 95000 + MulQuot(3000, Rand(state, 1), RAND_MAX) - 1500
        asteroidV == MulQuot(OrbitSpeed(sunMass, asteroidR),
                             980 + MulQuot(40, Rand(state, 2), RAND_MAX),
                             1000)
    IN  Object3D(Vec(MulQuot(asteroidR, Cos8(a), UnitScale), 0,
                     MulQuot(asteroidR, Sin8(a), UnitScale)),
                 Vec(-MulQuot(asteroidV, Sin8(a), UnitScale), 0,
                     MulQuot(asteroidV, Cos8(a), UnitScale)),
                 5 + MulQuot(10, ArgRand(state, order, 2, 1), RAND_MAX),
                 Color(500 + MulQuot(300, ArgRand(state, order, 2, 2), RAND_MAX),
                       400 + MulQuot(300, ArgRand(state, order, 2, 3), RAND_MAX),
                       300 + MulQuot(300, ArgRand(state, order, 2, 4), RAND_MAX)),
                 500 + MulQuot(500, ArgRand(state, order, 2, 5), RAND_MAX),
                 FALSE)

\* the number of rand() calls for one asteroid
RandPerAsteroid == 7

\* The loop "for (int i = 0; i < 8; i++)" from asteroid a on, appending to
\* objs: <<objects, generator state>> after it.
RECURSIVE AsteroidBelt(_, _, _, _)
AsteroidBelt(objs, state, order, a) ==
    IF a >= 8 \/ ~Strict(state) THEN <<objs, state>>
    ELSE AsteroidBelt(Append(objs, Asteroid(state, order, a)),
                      RandAfter(state, RandPerAsteroid), order, a + 1)

\* CreateObjects: <<the body set, the generator's state>> after the call
CreateObjects(state, order) ==
    LET r1 == 50000
        r2 == 80000
        r3 == 120000
        r4 == 160000
        moonOrbitRadius == 12000
        v2 == OrbitSpeed(sunMass, r2)
    IN  AsteroidBelt(
          << Object3D(ZeroVec, ZeroVec, sunMass, Color(1000, 900, 300), 15000,
                      TRUE),
             Object3D(Vec(r1, 0, 0),
                      Vec(0, 0, MulQuot(OrbitSpeed(sunMass, r1), 95, 100)),
                      100, Color(800, 400, 200), 3000, FALSE),
             Object3D(Vec(r2, 0, 0), Vec(0, 0, v2),
                      150, Color(200, 500, 1000), 4000, FALSE),
             Object3D(Vec(r3, 0, 0), Vec(0, 0, OrbitSpeed(sunMass, r3)),
                      200, Color(1000, 300, 300), 5000, FALSE),
             Object3D(Vec(r4, 0, 0),
                      Vec(0, 1000, MulQuot(OrbitSpeed(sunMass, r4), 92, 100)),
                      180, Color(500, 300, 800), 4500, FALSE),
             Object3D(Vec(r2 + moonOrbitRadius, 0, 0),
                      Vec(0, 0, v2 + OrbitSpeed(150, moonOrbitRadius)),
                      20, Color(800, 800, 800), 1500, FALSE) >>,
          state, order, 0)

----------------------------------------------------------------------------
(* The frame loop of part_002 main.                                        *)

\* "Reset acceleration", from object i on, appending to done
RECURSIVE ResetAccelerationFrom(_, _, _)
ResetAccelerationFrom(objs, done, i) ==
    IF i > Len(objs) \/ ~Strict(done) THEN done
    ELSE ResetAccelerationFrom(
             objs, Append(done, [objs[i] EXCEPT !.acceleration = ZeroVec]),
             i + 1)

ResetAcceleration(objs) == ResetAccelerationFrom(objs, <<>>, 1)

\* calculateGravitationalForce returning for a fixed other as well
calculateGravitationalForce_FromFreeOnly(self, other, same) ==
    IF same \/ other.fixed THEN self
    ELSE applyForce(self, GravitationalForce(self, other))

\* objects[i].calculateGravitationalForce(objects[j]), on self = objects[i]
calculateGravitationalForce(self, other, same) ==
    IF same THEN self ELSE applyForce(self, GravitationalForce(self, other))

\* the inner loop of the force pass, from j on, for self = objects[i]
RECURSIVE ForcesOn(_, _, _, _)
ForcesOn(objs, self, i, j) ==
    IF j > Len(objs) \/ ~Strict(self) THEN self
    ELSE ForcesOn(objs, calculateGravitationalForce(self, objs[j], i = j),
                  i, j + 1)

\* "Calculate gravitational forces", from object i on, appending to done.
\* The pass changes accelerations only and reads positions, radii and
\* masses only, so objects[j] is read from objs, the objects before it.
RECURSIVE ForcePassFrom(_, _, _)
ForcePassFrom(objs, done, i) ==
    IF i > Len(objs) \/ ~Strict(done) THEN done
    ELSE ForcePassFrom(objs, Append(done, ForcesOn(objs, objs[i], i, 1)), i + 1)

ForcePass(objs) == ForcePassFrom(objs, <<>>, 1)

\* The loops below work on the state st of the physics block: objects,
\* counter (the static trailCounter), applied (the timestep updatePosition
\* has integrated with so far in the frame) and collisions (the number of
\* pairs ResolveCollision was called on so far in the frame).

\* st after objects[i].updatePosition(physicsTimeStep, isPaused) has
\* returned updated = <<the object, trailCounter>>
Updated(st, i, updated) ==
    [st EXCEPT !.objects[i] = updated[1], !.counter = updated[2]]

\* "Update positions", from object i on
RECURSIVE IntegratePass(_, _, _, _)
IntegratePass(st, i, dt, paused) ==
    IF i > Len(st.objects) \/ ~Strict(st) THEN st
    ELSE IntegratePass(
             Updated(st, i,
                     updatePosition(st.objects[i], dt, paused, st.counter)),
             i + 1, dt, paused)

\* st after ResolveCollision(objects[i], objects[j]) has left the pair as
\* resolved
Resolved(st, i, j, resolved) ==
    [st EXCEPT !.objects[i] = resolved[1], !.objects[j] = resolved[2],
               !.collisions = @ + 1]

\* The inner loop of the collision pass for object i, from object j on
RECURSIVE CollisionsOf(_, _, _)
CollisionsOf(st, i, j) ==
    IF j > Len(st.objects) \/ ~Strict(st) THEN st
    ELSE IF CheckCollision(st.objects[i], st.objects[j])
    THEN CollisionsOf(
             Resolved(st, i, j, ResolveCollision(st.objects[i], st.objects[j])),
             i, j + 1)
    ELSE CollisionsOf(st, i, j + 1)

\* "Collision detection and resolution", from object i on
RECURSIVE CollisionPass(_, _)
CollisionPass(st, i) ==
    IF i > Len(st.objects) THEN st
    ELSE CollisionPass(CollisionsOf(st, i, i + 1), i + 1)

\* int physicsSteps = std::max(1, (int)(deltaTime * simulationSpeed /
\* MAX_TIMESTEP)); simulationSpeed is 1 and is never assigned.
PhysicsSteps(requested) == Max(1, Quot(requested, MAX_TIMESTEP))

\* physicsTimeStep = deltaTime * simulationSpeed / physicsSteps
PhysicsTimeStep(requested) == Quot(requested, PhysicsSteps(requested))

\* One pass of the loop body "for (int step ...)" on the state st.
Substep(st, dt, paused) ==
    CollisionPass(
        IntegratePass(
            [st EXCEPT !.objects = ForcePass(ResetAcceleration(@)),
                       !.applied = @ + (IF paused THEN 0 ELSE ActualDt(dt))],
            1, dt, paused),
        1)

RECURSIVE RunSteps(_, _, _, _, _)
RunSteps(st, step, physicsSteps, dt, paused) ==
    IF step >= physicsSteps \/ ~Strict(st) THEN st
    ELSE RunSteps(Substep(st, dt, paused), step + 1, physicsSteps, dt, paused)

\* The physics block of one frame, "if (!isPaused) { ... }".
PhysicsBlock(objs, counter, requested, paused) ==
    RunSteps([objects |-> objs, counter |-> counter, applied |-> 0,
              collisions |-> 0],
             0, PhysicsSteps(requested), PhysicsTimeStep(requested), paused)

NoTick == [paused |-> FALSE, requested |-> 0, steps |-> 0, stepDt |-> 0,
           applied |-> 0, collisions |-> 0]

----------------------------------------------------------------------------
(* Bounds of the model.                                                    *)

\* frames each program runs in one behaviour
MaxFrames == 2

\* resets (R key presses) in one behaviour
MaxResets == 1

\* the seeds srand(time(nullptr)) may set
Seeds == {1}

\* the frame times glfwGetTime() differences give part_002, in time units:
\* zero and a non-multiple of MAX_TIMESTEP above it
DeltaTimes == {0, 250}

----------------------------------------------------------------------------
(* The handlers of part_002.                                               *)

\* Frame without the test of isPaused around the physics block
Frame_WithoutPauseTest(deltaTime) ==
    /\ frames < MaxFrames
    /\ \E st \in {PhysicsBlock(objects, trailCounter, deltaTime, isPaused)} :
          /\ objects' = st.objects
          /\ trailCounter' = st.counter
          /\ lastTick' = [NoTick EXCEPT !.paused = isPaused,
                                        !.requested = deltaTime]
    /\ frames' = frames + 1
    /\ UNCHANGED <<isPaused, randState, argOrder, resets, objects3, isPaused3,
                   frames3, bodies, framesB, input, output,
                   pc, physicsStep, polled, resets3,
                   objects4, frames4>>

\* One iteration of the frame loop of main, for a frame time deltaTime.
Frame(deltaTime) ==
    /\ frames < MaxFrames
    /\ IF ~isPaused
       THEN \E st \in {PhysicsBlock(objects, trailCounter, deltaTime,
                                     isPaused)} :
               /\ objects' = st.objects
               /\ trailCounter' = st.counter
               /\ lastTick' = [paused |-> FALSE,
                               requested |-> deltaTime,
                               steps |-> PhysicsSteps(deltaTime),
                               stepDt |-> PhysicsTimeStep(deltaTime),
                               applied |-> st.applied,
                               collisions |-> st.collisions]
       ELSE /\ UNCHANGED <<objects, trailCounter>>
            /\ lastTick' = [NoTick EXCEPT !.paused = TRUE,
                                          !.requested = deltaTime]
    /\ frames' = frames + 1
    /\ UNCHANGED <<isPaused, randState, argOrder, resets, objects3, isPaused3,
                   frames3, bodies, framesB, input, output,
                   pc, physicsStep, polled, resets3,
                   objects4, frames4>>

\* KeyCallback, GLFW_KEY_SPACE pressed
KeySpace ==
    /\ isPaused' = ~isPaused
    /\ UNCHANGED <<objects, trailCounter, randState, argOrder, lastTick,
                   frames, resets, objects3, isPaused3, frames3, bodies,
                   framesB, input, output,
                   pc, physicsStep, polled, resets3,
                   objects4, frames4>>

\* KeyR resuming the simulation as well
KeyR_Resuming ==
    /\ Len(resets) < MaxResets
    /\ \E created \in {CreateObjects(randState, argOrder)} :
          /\ objects' = created[1]
          /\ randState' = created[2]
    /\ resets' = Append(resets, isPaused)
    /\ isPaused' = FALSE
    /\ UNCHANGED <<trailCounter, argOrder, lastTick, frames, objects3,
                   isPaused3, frames3, bodies, framesB, input, output,
                   pc, physicsStep, polled, resets3,
                   objects4, frames4>>

\* KeyCallback, GLFW_KEY_R pressed: *objects = CreateObjects()
KeyR ==
    /\ Len(resets) < MaxResets
    /\ \E created \in {CreateObjects(randState, argOrder)} :
          /\ objects' = created[1]
          /\ randState' = created[2]
    /\ resets' = Append(resets, isPaused)
    /\ UNCHANGED <<isPaused, trailCounter, argOrder, lastTick, frames,
                   objects3, isPaused3, frames3, bodies, framesB, input,
                   output,
                   pc, physicsStep, polled, resets3,
                   objects4, frames4>>

\* KeyCallback, GLFW_KEY_C pressed: prints statistics
KeyC ==
    UNCHANGED <<objects, isPaused, trailCounter, randState, argOrder,
                lastTick, frames, resets, objects3, isPaused3, frames3,
                bodies, framesB, input, output,
                   pc, physicsStep, polled, resets3,
                   objects4, frames4>>

----------------------------------------------------------------------------
(* The program part_002: main up to the frame loop, then frames and key    *)
(* callbacks (glfwPollEvents delivers them between two frames).            *)

\* part_003, the 2D backup and the direct calls are not running
OthersIdle ==
    /\ objects3 = <<>>
    /\ isPaused3 = FALSE
    /\ frames3 = 0
    /\ bodies = <<>>
    /\ framesB = 0
    /\ input = <<>>
    /\ output = <<>>
    /\ pc = "top"
    /\ physicsStep = 0
    /\ polled = <<>>
    /\ resets3 = <<>>
    /\ objects4 = <<>>
    /\ frames4 = 0

Init ==
    /\ argOrder \in {"ltr", "rtl"}
    /\ \E seed \in Seeds :
          \E created \in {CreateObjects(seed, argOrder)} :
             /\ objects = created[1]
             /\ randState = created[2]
    /\ isPaused = FALSE
    /\ trailCounter = 0
    /\ lastTick = NoTick
    /\ frames = 0
    /\ resets = <<>>
    /\ OthersIdle

Next ==
    \/ \E deltaTime \in DeltaTimes : Frame(deltaTime)
    \/ KeySpace
    \/ KeyR
    \/ KeyC

Spec == Init /\ [][Next]_vars

----------------------------------------------------------------------------
(* The frame loop and the pause key of part_002 on small scenes: what      *)
(* main does with any std::vector<Object3D>, fixed or free, apart or       *)
(* overlapping, which CreateObjects alone does not produce.                *)

\* radius of the bodies of a scene, 0.5f (the constructor's default)
SceneRadius == PosScale \div 2

\* mass of the first body of a scene, 200.0f
SceneMass == 200 * MassScale

\* masses of the second body: 50.0f and 200.0f
SceneMasses == {500, 2000}

\* where the second body is, the first being at the origin: on it, inside
\* it, apart but closer than the minimum distance of the force, and beyond
SceneOffsets ==
    {Vec(0, 0, 0), Vec(6000, 0, 0), Vec(9000, 12000, 0), Vec(24000, 0, 32000)}

\* velocity of the first body, 0.3 along x
SceneVelocity == Vec(3000, 0, 0)

\* velocities of the second body: at rest, and approaching the first
SceneVelocities == {ZeroVec, Vec(-20000, 0, 5000)}

\* frame times of the scenes, in time units: zero, below MAX_TIMESTEP,
\* MAX_TIMESTEP, a non-multiple between one and two, a non-multiple above
\* two, and a multiple
SceneDeltaTimes == {0, 60, 100, 150, 250, 300}

White == Color(10, 10, 10)

\* two bodies, each fixed or free
Pairs ==
    { <<Object3D(ZeroVec, SceneVelocity, SceneMass, White, SceneRadius, fa),
        Object3D(offset, vel, m, White, SceneRadius, fb)>> :
        <<fa, fb, offset, vel, m>> \in
            BOOLEAN \X BOOLEAN \X SceneOffsets \X SceneVelocities
                \X SceneMasses }

\* a fixed body between two free ones, the second overlapping it
Triples ==
    { <<Object3D(Vec(6000, 0, 0), ZeroVec, m, White, SceneRadius, FALSE),
        Object3D(ZeroVec, ZeroVec, SceneMass, White, SceneRadius, TRUE),
        Object3D(Vec(0, -30000, 0), vel, m, White, SceneRadius, FALSE)>> :
        <<vel, m>> \in SceneVelocities \X SceneMasses }

Scenes == Pairs \cup Triples

InitSim ==
    /\ objects \in Scenes
    /\ argOrder = "ltr"
    /\ randState = 0
    /\ isPaused = FALSE
    /\ trailCounter = 0
    /\ lastTick = NoTick
    /\ frames = 0
    /\ resets = <<>>
    /\ OthersIdle

NextSim ==
    \/ \E deltaTime \in SceneDeltaTimes : Frame(deltaTime)
    \/ KeySpace

SpecSim == InitSim /\ [][NextSim]_vars

----------------------------------------------------------------------------
(* The frame loop and the pause key of part_002 on two free bodies of      *)
(* equal mass and radius at rest, farther apart than the minimum distance  *)
(* of the force.                                                           *)

\* radius of the bodies at rest, 1.0f
RestRadius == PosScale

\* masses of the bodies at rest: 10.0f and 200.0f
RestMasses == {10 * MassScale, 200 * MassScale}

\* where the first body is
RestPositions == {ZeroVec, Vec(-20000, 10000, 0)}

\* where the second body is from the first: 10 units along x, 10 units
\* across, 5 units across
RestOffsets == {Vec(100000, 0, 0), Vec(60000, 80000, 0), Vec(0, -30000, 40000)}

RestPairs ==
    { <<Object3D(pos, ZeroVec, m, White, RestRadius, FALSE),
        Object3D(VAdd(pos, offset), ZeroVec, m, White, RestRadius, FALSE)>> :
        <<pos, offset, m>> \in RestPositions \X RestOffsets \X RestMasses }

InitRest ==
    /\ objects \in RestPairs
    /\ argOrder = "ltr"
    /\ randState = 0
    /\ isPaused = FALSE
    /\ trailCounter = 0
    /\ lastTick = NoTick
    /\ frames = 0
    /\ resets = <<>>
    /\ OthersIdle

SpecRest == InitRest /\ [][NextSim]_vars

----------------------------------------------------------------------------
(* The frame loop and the pause key of part_002 on rows of free bodies at  *)
(* rest, far apart, behind a fixed body or not: what main does with a      *)
(* std::vector<Object3D> of any size.                                      *)

\* numbers of free bodies in a row
CrowdSizes == {1, 2, 3, 4}

\* masses of the bodies of a row: 1.0f and 10.0f
CrowdMasses == {MassScale, 10 * MassScale}

\* frame times of the rows, in time units: one substep and three
CrowdDeltaTimes == {100, 300}

\* objs and then the free bodies k .. n of a row, 10 units apart along x
RECURSIVE RowFrom(_, _, _, _)
RowFrom(objs, k, n, m) ==
    IF k > n \/ ~Strict(objs) THEN objs
    ELSE RowFrom(Append(objs,
                        Object3D(Vec(10 * PosScale * k, 0, 0), ZeroVec, m,
                                 White, SceneRadius, FALSE)),
                 k + 1, n, m)

\* the fixed body a row may stand behind
Anchor == Object3D(ZeroVec, ZeroVec, SceneMass, White, SceneRadius, TRUE)

Crowds ==
    { RowFrom(IF anchored THEN <<Anchor>> ELSE <<>>, 1, n, m) :
        <<anchored, n, m>> \in BOOLEAN \X CrowdSizes \X CrowdMasses }

InitCrowd ==
    /\ objects \in Crowds
    /\ argOrder = "ltr"
    /\ randState = 0
    /\ isPaused = FALSE
    /\ trailCounter = 0
    /\ lastTick = NoTick
    /\ frames = 0
    /\ resets = <<>>
    /\ OthersIdle

NextCrowd ==
    \/ \E deltaTime \in CrowdDeltaTimes : Frame(deltaTime)
    \/ KeySpace

SpecCrowd == InitCrowd /\ [][NextCrowd]_vars

----------------------------------------------------------------------------
(* The frame loop and the pause key of part_002 on rows of bodies at rest  *)
(* that overlap their neighbours or touch nothing.                         *)

\* numbers of bodies in a row
PileSizes == {2, 3, 4}

\* distance between the centres of neighbours: 0.6 and 0.9, overlapping
\* (the radii are 0.5), and 1.2, apart
PileGaps == {6000, 9000, 12000}

\* masses of the bodies of a row other than the first: 1.0f and 10.0f
PileMasses == {MassScale, 10 * MassScale}

\* frame times of the rows, in time units: one substep and two
PileDeltaTimes == {100, 250}

\* objs and then the free bodies k .. n of a row, gap apart along x
RECURSIVE PileFrom(_, _, _, _, _)
PileFrom(objs, k, n, gap, m) ==
    IF k > n \/ ~Strict(objs) THEN objs
    ELSE PileFrom(Append(objs,
                         Object3D(Vec(gap * (k - 1), 0, 0), ZeroVec, m, White,
                                  SceneRadius, FALSE)),
                  k + 1, n, gap, m)

\* the first body of a row has mass 1.0f and is fixed or free
Piles ==
    { PileFrom(<<Object3D(ZeroVec, ZeroVec, MassScale, White, SceneRadius,
                          isFixed)>>,
               2, n, gap, m) :
        <<isFixed, n, gap, m>> \in
            BOOLEAN \X PileSizes \X PileGaps \X PileMasses }

InitPile ==
    /\ objects \in Piles
    /\ argOrder = "ltr"
    /\ randState = 0
    /\ isPaused = FALSE
    /\ trailCounter = 0
    /\ lastTick = NoTick
    /\ frames = 0
    /\ resets = <<>>
    /\ OthersIdle

NextPile ==
    \/ \E deltaTime \in PileDeltaTimes : Frame(deltaTime)
    \/ KeySpace

SpecPile == InitPile /\ [][NextPile]_vars

----------------------------------------------------------------------------
(* part_003, the solar system demo: class Object3D and the frame loop.     *)
(* Its names carry a 3 where part_002 has the same name.                   *)

\* const double G = 1.993560809749174e-44, in thousandths: zero.  With
\* masses and distances of the model's range the force it gives is below
\* every unit of the model, as it is below the float resolution of any
\* velocity the program holds.
G3 == 0

\* Object3D::maxTrailLength
maxTrailLength3 == 500

\* Object3D::Object3D.  No argument is validated; there is no fixed flag.
Object3D3(pos, vel, m, col, r) ==
    [position |-> pos, velocity |-> vel, mass |-> m, color |-> col,
     radius |-> r, acceleration |-> ZeroVec, trail |-> <<>>]

\* Object3D::applyForce
applyForce3(obj, force) ==
    [obj EXCEPT !.acceleration = VAdd(@, ForceOverMass(force, obj.mass))]

\* Object3D::updatePosition: no clamp of dt, the trail grows on every call
updatePosition3(obj, dt, paused) ==
    IF paused THEN obj
    ELSE LET vel == VAdd(obj.velocity,
                         VScale(obj.acceleration, dt, AccTimePerVel))
             pos == VAdd(obj.position, VScale(vel, dt, TimeScale))
         IN  [obj EXCEPT !.velocity = vel,
                         !.position = pos,
                         !.trail = PushTrail(@, pos, maxTrailLength3),
                         !.acceleration = ZeroVec]

\* Object3D::calculateGravitationalForce: the force on self from other
GravitationalForce3(self, other) ==
    LET direction == VSub(other.position, self.position)
    IN  IF IsNaN(direction) THEN NaNVec
        ELSE LET distance ==
                     Max(Length(direction), self.radius + other.radius)
                 forceMagnitude ==
                     IF distance = 0 THEN 0
                     ELSE MulQuot(MulQuot(G3 * self.mass, ForceUnits, distance),
                                  other.mass, distance)
             IN  VScale(Normalize(direction), forceMagnitude, UnitScale)

\* objects[i].calculateGravitationalForce(objects[j]), on self = objects[i]
calculateGravitationalForce3(self, other, same) ==
    IF same THEN self ELSE applyForce3(self, GravitationalForce3(self, other))

\* the inner loop of the force pass, from j on, for self = objects[i]
RECURSIVE ForcesOn3(_, _, _, _)
ForcesOn3(objs, self, i, j) ==
    IF j > Len(objs) \/ ~Strict(self) THEN self
    ELSE ForcesOn3(objs, calculateGravitationalForce3(self, objs[j], i = j),
                   i, j + 1)

\* "Calculate gravitational forces between all objects", from object i on,
\* appending to done.  The pass changes accelerations only and reads
\* positions, radii and masses only.
RECURSIVE ForcePassFrom3(_, _, _)
ForcePassFrom3(objs, done, i) ==
    IF i > Len(objs) \/ ~Strict(done) THEN done
    ELSE ForcePassFrom3(objs, Append(done, ForcesOn3(objs, objs[i], i, 1)),
                        i + 1)

\* "Update positions", from object i on, appending to done
RECURSIVE UpdatePassFrom3(_, _, _, _, _)
UpdatePassFrom3(objs, done, i, dt, paused) ==
    IF i > Len(objs) \/ ~Strict(done) THEN done
    ELSE UpdatePassFrom3(objs, Append(done, updatePosition3(objs[i], dt, paused)),
                         i + 1, dt, paused)

\* The physics block of one frame of main, "if (!isPaused) { ... }";
\* simulationSpeed is 1 and is never assigned.
PhysicsBlock3(objs, deltaTime, paused) ==
    UpdatePassFrom3(ForcePassFrom3(objs, <<>>, 1), <<>>, 1, deltaTime, paused)

\* One iteration of the frame loop of main, for a frame time deltaTime.
Frame3(deltaTime) ==
    /\ frames3 < MaxFrames
    /\ objects3' = IF ~isPaused3
                   THEN PhysicsBlock3(objects3, deltaTime, isPaused3)
                   ELSE objects3
    /\ frames3' = frames3 + 1
    /\ UNCHANGED <<objects, isPaused, trailCounter, randState, argOrder,
                   lastTick, frames, resets, isPaused3, bodies, framesB,
                   input, output,
                   pc, physicsStep, polled, resets3,
                   objects4, frames4>>

----------------------------------------------------------------------------
(* part_003 as a program: CreateObjects, main and KeyCallback.  Positions  *)
(* are in 1e-4 AU, velocities in 1e-4 AU/s, masses in 1e22 kg.  The        *)
(* orbital velocities, some 1e-7 AU/s, are below the velocity unit.        *)

\* the frame time of part_003 and of the 2D backup, 16 ms
DeltaTimes3 == {1600}

\* const double AU_METERS = 149597870700.0, in kilometres
AU_KM == 149597871

\* const float RADIUS_SCALE = 0.005f, in thousandths
RADIUS_SCALE == 5

\* kmps_to_AUps, for a speed in hundredths of km/s
kmps_to_AUps(kmps) == Quot(Quot(kmps * PosScale, 100), AU_KM)

\* x * RADIUS_SCALE, for x in thousandths
VisualRadius(x) == MulQuot(x * RADIUS_SCALE, PosScale, 1000000)

\* emplace_back of a planet at distance au (in thousandths of an AU) with
\* speed kmps (in hundredths of km/s)
Planet(au, kmps, m, col, r) ==
    Object3D3(Vec(Quot(au * PosScale, 1000), 0, 0),
              Vec(0, kmps_to_AUps(kmps), 0), m, col, VisualRadius(r))

\* CreateObjects of part_003: the sun and eight planets
CreateObjects3 ==
    << Object3D3(ZeroVec, ZeroVec, 198900000, Color(1000, 900, 300),
                 VisualRadius(65000)),
       Planet(387, 4736, 33, Color(700, 400, 200), 383),
       Planet(723, 3502, 486, Color(900, 700, 400), 949),
       Planet(1000, 2978, 597, Color(200, 400, 700), 1000),
       Planet(1524, 2407, 64, Color(900, 500, 300), 532),
       Planet(5203, 1307, 189820, Color(1000, 500, 200), 11210),
       Planet(9537, 969, 56834, Color(800, 700, 600), 9450),
       Planet(19191, 681, 8681, Color(600, 800, 900), 4010),
       Planet(30070, 543, 10241, Color(300, 500, 900), 3880) >>

\* glfwGetWindowUserPointer(window) in KeyCallback: main of part_003 never
\* calls glfwSetWindowUserPointer, so it is the NULL a new window has.
WindowUserPointer3 == "NULL"

\* KeyCallback, GLFW_KEY_SPACE pressed
KeySpace3 ==
    /\ isPaused3' = ~isPaused3
    /\ UNCHANGED <<objects, isPaused, trailCounter, randState, argOrder,
                   lastTick, frames, resets, objects3, frames3, bodies,
                   framesB, input, output, pc, physicsStep, polled, resets3,
                   objects4, frames4>>

\* R keys pressed in one behaviour of part_003
MaxResets3 == 3

\* KeyCallback, GLFW_KEY_R pressed: if (objects) *objects = CreateObjects()
KeyR3 ==
    /\ Len(resets3) < MaxResets3
    /\ objects3' = IF WindowUserPointer3 # "NULL" THEN CreateObjects3
                   ELSE objects3
    /\ resets3' = Append(resets3, isPaused3)
    /\ UNCHANGED <<objects, isPaused, trailCounter, randState, argOrder,
                   lastTick, frames, resets, isPaused3, frames3, bodies,
                   framesB, input, output, pc, physicsStep, polled,
                   objects4, frames4>>

\* main of part_003 up to the render loop; nothing else is running
Init3 ==
    /\ objects3 = CreateObjects3
    /\ isPaused3 = FALSE
    /\ frames3 = 0
    /\ resets3 = <<>>
    /\ objects4 = <<>>
    /\ frames4 = 0
    /\ objects = <<>>
    /\ argOrder = "ltr"
    /\ randState = 0
    /\ isPaused = FALSE
    /\ trailCounter = 0
    /\ lastTick = NoTick
    /\ frames = 0
    /\ resets = <<>>
    /\ bodies = <<>>
    /\ framesB = 0
    /\ input = <<>>
    /\ output = <<>>
    /\ pc = "top"
    /\ physicsStep = 0
    /\ polled = <<>>

Next3 ==
    \/ \E deltaTime \in DeltaTimes3 : Frame3(deltaTime)
    \/ KeySpace3
    \/ KeyR3

SpecDemo == Init3 /\ [][Next3]_vars

----------------------------------------------------------------------------
(* The 2D backup simulator, "Backup main (straightline code).cpp".         *)
(* Positions are in 1e-4, velocities in 1e-5, masses in units, forces      *)
(* and accelerations in 1e-6; vectors have z = 0.                          *)

\* updatePhysics: const float G = 0.1f, in tenths
G2D == 1

\* updatePhysics: if (b.trail.size() > 500)
MaxTrail2D == 500

\* velocity units times time units in one position unit
VelTimePerPos2D == 1000000

\* acceleration units times time units in one velocity unit
AccTimePerVel2D == 1000000

\* struct Body
Body(pos, vel, m, r) ==
    [position |-> pos, velocity |-> vel, mass |-> m, radius |-> r,
     trail |-> <<>>]

\* updatePhysics: G * bodies[i].mass * bodies[j].mass / distSq *
\* glm::normalize(dir), with distSq = dot(dir, dir) + 1 in tenths
PairForce2D(bi, bj) ==
    LET dir == VSub(bj.position, bi.position)
    IN  IF IsNaN(dir) THEN NaNVec
        ELSE LET len == Length(dir) \div 100
                 distSq == MulQuot(len, len, 1000) + 10
                 magnitude == MulQuot(G2D * bi.mass * bj.mass * 1000, 1000,
                                      distSq)
             IN  VScale(Normalize(dir), magnitude, UnitScale)

\* updatePhysics: the inner loop, from j on: the force on bodies[i]
RECURSIVE Force2D(_, _, _, _)
Force2D(bs, i, j, force) ==
    IF j > Len(bs) \/ ~Strict(force) THEN force
    ELSE Force2D(bs, i, j + 1,
                 IF i = j THEN force
                 ELSE VAdd(force, PairForce2D(bs[i], bs[j])))

\* updatePhysics: the first loop, from body i on.  The velocity of a body
\* is not read by the bodies after it, so the loop maps each body alone.
RECURSIVE Accelerate2D(_, _, _, _)
Accelerate2D(bs, done, i, dt) ==
    IF i > Len(bs) \/ ~Strict(done) THEN done
    ELSE Accelerate2D(bs,
             Append(done,
                    [bs[i] EXCEPT !.velocity =
                        VAdd(@, VScale(ForceOverMass(Force2D(bs, i, 1, ZeroVec),
                                                     bs[i].mass * MassScale),
                                       dt, AccTimePerVel2D))]),
             i + 1, dt)

\* updatePhysics: the second loop, from body i on
RECURSIVE Move2D(_, _, _, _)
Move2D(bs, done, i, dt) ==
    IF i > Len(bs) \/ ~Strict(done) THEN done
    ELSE LET pos == VAdd(bs[i].position,
                         VScale(bs[i].velocity, dt, VelTimePerPos2D))
         IN  Move2D(bs,
                    Append(done, [bs[i] EXCEPT !.position = pos,
                                               !.trail = PushTrail(@, pos,
                                                             MaxTrail2D)]),
                    i + 1, dt)

\* updatePhysics(bodies, dt)
updatePhysics(bs, dt) == Move2D(Accelerate2D(bs, <<>>, 1, dt), <<>>, 1, dt)

\* main: "Create a sun and one orbiting planet"
InitialBodies ==
    <<Body(Vec(0, 0, 0), Vec(0, 0, 0), 1000, 100000),
      Body(Vec(1500000, 0, 0), Vec(0, 5500000, 0), 1, 50000)>>

\* One iteration of the main loop, for a frame time dt.
Frame2D(dt) ==
    /\ framesB < MaxFrames
    /\ bodies' = updatePhysics(bodies, dt)
    /\ framesB' = framesB + 1
    /\ UNCHANGED <<objects, isPaused, trailCounter, randState, argOrder,
                   lastTick, frames, resets, objects3, isPaused3, frames3,
                   input, output,
                   pc, physicsStep, polled, resets3,
                   objects4, frames4>>

----------------------------------------------------------------------------
(* The three programs after they have run for a while: the frame loops on  *)
(* trails that are empty, one entry short of their maximum, and full.      *)

\* part_002: a fixed body of mass 200 and a body of mass 10 in orbit at
\* distance 4 around it
TrailScene ==
    <<Object3D(ZeroVec, ZeroVec, 2000, White, SceneRadius, TRUE),
      Object3D(Vec(40000, 0, 0), Vec(0, 0, OrbitSpeed(2000, 40000)), 100,
               White, SceneRadius, FALSE)>>

\* part_003: two bodies drifting apart
TrailScene3 ==
    <<Object3D3(ZeroVec, Vec(1000, 0, 0), 2000, White, SceneRadius),
      Object3D3(Vec(50000, 0, 0), Vec(0, 30000, 0), 500, White, SceneRadius)>>

\* part_002 after n more frames of MAX_TIMESTEP each, by halving n
RECURSIVE AfterFrames(_, _)
AfterFrames(st, n) ==
    IF n = 0 \/ ~Strict(st) THEN st
    ELSE IF n = 1
    THEN PhysicsBlock(st.objects, st.counter, MAX_TIMESTEP, FALSE)
    ELSE AfterFrames(AfterFrames(st, n \div 2), n - n \div 2)

\* part_003 after n more frames of 16 ms each
RECURSIVE AfterFrames3(_, _)
AfterFrames3(objs, n) ==
    IF n = 0 \/ ~Strict(objs) THEN objs
    ELSE IF n = 1 THEN PhysicsBlock3(objs, 1600, FALSE)
    ELSE AfterFrames3(AfterFrames3(objs, n \div 2), n - n \div 2)

\* the 2D backup after n more frames of 16 ms each
RECURSIVE AfterFrames2D(_, _)
AfterFrames2D(bs, n) ==
    IF n = 0 \/ ~Strict(bs) THEN bs
    ELSE IF n = 1 THEN updatePhysics(bs, 1600)
    ELSE AfterFrames2D(AfterFrames2D(bs, n \div 2), n - n \div 2)

\* how long the programs have run: not at all, up to one trail entry short
\* of the maximum, up to a full trail
RunLengths == {"fresh", "near", "full"}

\* the number of updatePosition calls (or frames) after which a trail that
\* grows by one entry every `every` calls has reached the run length
CallsRun(length, maxLen, every) ==
    IF length = "fresh" THEN 0
    ELSE IF length = "near" THEN (maxLen - 1) * every + (every - 1)
    ELSE maxLen * every + (every - 1)

InitTrail ==
    /\ \E length \in RunLengths :
          /\ \E st \in {AfterFrames(
                            [objects |-> TrailScene, counter |-> 0,
                             applied |-> 0, collisions |-> 0],
                            CallsRun(length, maxTrailLength, TrailEvery))} :
                /\ objects = st.objects
                /\ trailCounter = st.counter
          /\ objects3 = AfterFrames3(TrailScene3,
                                     CallsRun(length, maxTrailLength3, 1))
          /\ bodies = AfterFrames2D(InitialBodies,
                                    CallsRun(length, MaxTrail2D, 1))
    /\ argOrder = "ltr"
    /\ randState = 0
    /\ isPaused = FALSE
    /\ isPaused3 = FALSE
    /\ lastTick = NoTick
    /\ frames = 0
    /\ frames3 = 0
    /\ framesB = 0
    /\ resets = <<>>
    /\ input = <<>>
    /\ output = <<>>
    /\ pc = "top"
    /\ physicsStep = 0
    /\ polled = <<>>
    /\ resets3 = <<>>
    /\ objects4 = <<>>
    /\ frames4 = 0

NextTrail ==
    \/ \E deltaTime \in DeltaTimes : Frame(deltaTime)
    \/ \E deltaTime \in DeltaTimes3 : Frame3(deltaTime)
    \/ \E dt \in DeltaTimes3 : Frame2D(dt)

SpecTrail == InitTrail /\ [][NextTrail]_vars

----------------------------------------------------------------------------
(* Direct calls of ResolveCollision, on pairs for which CheckCollision     *)
(* holds, as in the collision pass of main.                                *)

\* where b is, a being at the origin: on it; closer than 0.001 on either
\* side of it and across; at 0.001 exactly, against the fallback axis;
\* just beyond 0.001; deeper inside; touching radii of 0.3
ResolveOffsets ==
    {Vec(0, 0, 0), Vec(5, 0, 0), Vec(-5, 0, 0), Vec(0, 7, 0), Vec(-10, 0, 0),
     Vec(11, 0, 0), Vec(-3000, 4000, 0), Vec(4000, -3000, 1000),
     Vec(6000, 0, 0)}

\* velocities of a
ResolveVelocitiesA == {ZeroVec, Vec(2000, 0, 0)}

\* velocities of b
ResolveVelocitiesB ==
    {ZeroVec, Vec(10000, 0, 0), Vec(-10000, 5000, 0), Vec(3000, -4000, 0),
     Vec(0, 5000, 0)}

\* <<radius of a, radius of b>>: 0.3 and 0.3, 0.5 and 0.3
ResolveRadii == {<<3000, 3000>>, <<5000, 3000>>}

\* <<mass of a, mass of b>>
ResolveMasses == {<<10, 10>>, <<10, 30>>}

ResolveInputs ==
    { <<Object3D(ZeroVec, va, m[1], White, r[1], fa),
        Object3D(offset, vb, m[2], White, r[2], fb)>> :
        <<fa, fb, offset, va, vb, r, m>> \in
            BOOLEAN \X BOOLEAN \X ResolveOffsets \X ResolveVelocitiesA
                \X ResolveVelocitiesB \X ResolveRadii \X ResolveMasses }

\* the collision pass of main on the pair input: if (CheckCollision(a, b))
\* ResolveCollision(a, b)
CallResolveCollision ==
    /\ output = <<>>
    /\ CheckCollision(input[1], input[2])
    /\ output' = <<ResolveCollision(input[1], input[2])>>
    /\ UNCHANGED <<objects, isPaused, trailCounter, randState, argOrder,
                   lastTick, frames, resets, objects3, isPaused3, frames3,
                   bodies, framesB, input,
                   pc, physicsStep, polled, resets3,
                   objects4, frames4>>

\* no program is running; only direct calls are made
NoProgram ==
    /\ objects = <<>>
    /\ argOrder = "ltr"
    /\ randState = 0
    /\ isPaused = FALSE
    /\ trailCounter = 0
    /\ lastTick = NoTick
    /\ frames = 0
    /\ resets = <<>>
    /\ objects3 = <<>>
    /\ isPaused3 = FALSE
    /\ frames3 = 0
    /\ bodies = <<>>
    /\ framesB = 0
    /\ pc = "top"
    /\ physicsStep = 0
    /\ polled = <<>>
    /\ resets3 = <<>>
    /\ objects4 = <<>>
    /\ frames4 = 0

InitResolve ==
    /\ input \in ResolveInputs
    /\ output = <<>>
    /\ NoProgram

NextResolve == CallResolveCollision

SpecResolve == InitResolve /\ [][NextResolve]_vars

----------------------------------------------------------------------------
(* Direct calls of the constructors of Object3D.                           *)

\* masses handed to the constructor: negative, zero, positive
CtorMasses == {-10, 0, 10, 2000}

\* radii handed to the constructor: negative, zero, positive
CtorRadii == {-5000, 0, 5000, 15000}

CtorPositions == {ZeroVec, Vec(50000, 0, 0)}

CtorVelocities == {ZeroVec, Vec(0, 0, 11000)}

\* the arguments of one constructor call of part_002 or of part_003 (which
\* has no parameter isFixed)
CtorInputs ==
    [part : {"part_002", "part_003"}, pos : CtorPositions,
     vel : CtorVelocities, m : CtorMasses, col : {White}, r : CtorRadii,
     isFixed : {FALSE}]
    \cup
    [part : {"part_002"}, pos : CtorPositions, vel : CtorVelocities,
     m : CtorMasses, col : {White}, r : CtorRadii, isFixed : {TRUE}]

\* Object3D(pos, vel, m, col, r, isFixed) of part_002
CallObject3D ==
    /\ output = <<>>
    /\ input.part = "part_002"
    /\ output' = <<Object3D(input.pos, input.vel, input.m, input.col,
                            input.r, input.isFixed)>>
    /\ UNCHANGED <<objects, isPaused, trailCounter, randState, argOrder,
                   lastTick, frames, resets, objects3, isPaused3, frames3,
                   bodies, framesB, input,
                   pc, physicsStep, polled, resets3,
                   objects4, frames4>>

\* Object3D(pos, vel, m, col, r) of part_003
CallObject3D3 ==
    /\ output = <<>>
    /\ input.part = "part_003"
    /\ output' = <<Object3D3(input.pos, input.vel, input.m, input.col,
                             input.r)>>
    /\ UNCHANGED <<objects, isPaused, trailCounter, randState, argOrder,
                   lastTick, frames, resets, objects3, isPaused3, frames3,
                   bodies, framesB, input,
                   pc, physicsStep, polled, resets3,
                   objects4, frames4>>

InitCtor ==
    /\ input \in CtorInputs
    /\ output = <<>>
    /\ NoProgram

NextCtor ==
    \/ CallObject3D
    \/ CallObject3D3

SpecCtor == InitCtor /\ [][NextCtor]_vars

----------------------------------------------------------------------------
(* Direct calls of Object3D::updatePosition of part_002.                   *)

UpdatePositions == {ZeroVec, Vec(50000, 0, -20000)}

UpdateVelocities == {ZeroVec, Vec(3000, -20000, 0), Vec(110000, 0, 7)}

\* accelerations left by the force pass, in acceleration units
UpdateAccelerations == {ZeroVec, Vec(100, 0, -5000), Vec(0, 200000, 0)}

\* timesteps handed to updatePosition, in time units: zero, below
\* MAX_TIMESTEP, MAX_TIMESTEP, between one and two MAX_TIMESTEP (what the
\* frame loop hands on for a frame time that is no multiple), 10 ms and 1 s
UpdateTimesteps == {0, 60, 100, 150, 199, 1000, 100000}

\* values of the static trailCounter before the call
UpdateCounters == {0, 2}

\* the object, the argument dt, the global isPaused and the static
\* trailCounter of one call
UpdateInputs ==
    { [obj |-> [Object3D(pos, vel, 200, White, SceneRadius, isFixed)
                    EXCEPT !.acceleration = acc],
       dt |-> dt, paused |-> paused, counter |-> counter] :
        <<pos, vel, acc, isFixed, dt, paused, counter>> \in
            UpdatePositions \X UpdateVelocities \X UpdateAccelerations
                \X BOOLEAN \X UpdateTimesteps \X BOOLEAN \X UpdateCounters }

\* obj.updatePosition(dt)
CallUpdatePosition ==
    /\ output = <<>>
    /\ output' = <<updatePosition(input.obj, input.dt, input.paused,
                                  input.counter)>>
    /\ UNCHANGED <<objects, isPaused, trailCounter, randState, argOrder,
                   lastTick, frames, resets, objects3, isPaused3, frames3,
                   bodies, framesB, input, pc, physicsStep, polled, resets3,
                   objects4, frames4>>

InitUpdate ==
    /\ input \in UpdateInputs
    /\ output = <<>>
    /\ NoProgram

NextUpdate == CallUpdatePosition

SpecUpdate == InitUpdate /\ [][NextUpdate]_vars

----------------------------------------------------------------------------
(* Direct calls of calculateGravitationalForce of part_002 and of          *)
(* part_003, self.calculateGravitationalForce(other) on two distinct       *)
(* objects.                                                                *)

\* where self is
ForcePositions == {ZeroVec, Vec(-20000, 10000, 0)}

\* where other is from self: on it, 0.0005 from it, closer than the sum of
\* the radii, closer than twice the sum, and farther on and across the axes
ForceOffsets ==
    {Vec(0, 0, 0), Vec(5, 0, 0), Vec(3000, 4000, 0), Vec(0, -9000, 0),
     Vec(24000, 0, 32000), Vec(-60000, 80000, 0), Vec(0, 0, -100000)}

\* <<radius of self, radius of other>>
ForceRadii == {<<3000, 3000>>, <<15000, 3000>>}

\* <<mass of self, mass of other>>: 10 and 10, 10 and 5000, 200 and 10
ForceMasses == {<<100, 100>>, <<100, 50000>>, <<2000, 100>>}

ForceInputs ==
    { <<Object3D(pos, ZeroVec, m[1], White, r[1], isFixed),
        Object3D(VAdd(pos, offset), ZeroVec, m[2], White, r[2], FALSE)>> :
        <<pos, offset, r, m, isFixed>> \in
            ForcePositions \X ForceOffsets \X ForceRadii \X ForceMasses
                \X BOOLEAN }

\* input[1].calculateGravitationalForce(input[2]) of part_002: output is
\* self after the call, the force handed to applyForce, and the program
CallCalculateGravitationalForce ==
    /\ output = <<>>
    /\ output' = <<calculateGravitationalForce(input[1], input[2], FALSE),
                   GravitationalForce(input[1], input[2]),
                   "part_002">>
    /\ UNCHANGED <<objects, isPaused, trailCounter, randState, argOrder,
                   lastTick, frames, resets, objects3, isPaused3, frames3,
                   bodies, framesB, input,
                   pc, physicsStep, polled, resets3,
                   objects4, frames4>>

\* input[1].calculateGravitationalForce(input[2]) of part_003
CallCalculateGravitationalForce3 ==
    /\ output = <<>>
    /\ output' = <<calculateGravitationalForce3(input[1], input[2], FALSE),
                   GravitationalForce3(input[1], input[2]),
                   "part_003">>
    /\ UNCHANGED <<objects, isPaused, trailCounter, randState, argOrder,
                   lastTick, frames, resets, objects3, isPaused3, frames3,
                   bodies, framesB, input,
                   pc, physicsStep, polled, resets3,
                   objects4, frames4>>

InitForce ==
    /\ input \in ForceInputs
    /\ output = <<>>
    /\ NoProgram

NextForce ==
    \/ CallCalculateGravitationalForce
    \/ CallCalculateGravitationalForce3

SpecForce == InitForce /\ [][NextForce]_vars

----------------------------------------------------------------------------
(* part_004, the 2D wall-bounce demo: class Object and the frame loop.     *)
(* Positions are in 1/PosScale pixels, velocities in 1/PosScale pixels     *)
(* per frame.  Its names carry a 4 where part_002 has the same name.       *)

\* float screenWidth = 800.0f, in pixels
screenWidth == 800

\* float screenHeight = 600.0f, in pixels
screenHeight == 600

\* Object::Object: float radius = 15.0f, in pixels
DefaultRadius4 == 15

\* object.accelerate(0.0f, -0.2f): 0.2f is 1 / GravityPerFrame4 pixels per
\* frame
GravityPerFrame4 == 5

\* velocity *= -0.95f, in hundredths
WallRestitution4 == 95

\* Object::Object
Object4(position, velocity) ==
    [position |-> position, velocity |-> velocity,
     radius |-> DefaultRadius4 * PosScale]

\* Object::accelerate
accelerate(obj, x, y) ==
    [obj EXCEPT !.velocity = <<@[1] + x, @[2] + y>>]

\* Object::updatePosition
updatePosition4(obj) ==
    [obj EXCEPT !.position = <<@[1] + obj.velocity[1], @[2] + obj.velocity[2]>>]

\* "Bounce on walls" on one axis (1 is x, 2 is y) of a screen of the given
\* size
Bounce(obj, axis, size) ==
    IF \/ obj.position[axis] - obj.radius < 0
       \/ obj.position[axis] + obj.radius > size * PosScale
    THEN [obj EXCEPT !.velocity[axis] = Quot(-WallRestitution4 * @, 100)]
    ELSE obj

\* the body of "for (auto &object : objects)" on one object
StepObject4(obj) ==
    Bounce(Bounce(updatePosition4(accelerate(obj, 0,
                                             -(PosScale \div GravityPerFrame4))),
                  2, screenHeight),
           1, screenWidth)

\* "for (auto &object : objects)", from object i on, appending to done
RECURSIVE StepObjectsFrom4(_, _, _)
StepObjectsFrom4(objs, done, i) ==
    IF i > Len(objs) \/ ~Strict(done) THEN done
    ELSE StepObjectsFrom4(objs, Append(done, StepObject4(objs[i])), i + 1)

\* std::vector<Object> objects of main
CreateObjects4 ==
    <<Object4(<<200 * PosScale, 500 * PosScale>>, <<2 * PosScale, 0>>),
      Object4(<<400 * PosScale, 550 * PosScale>>, <<-3 * PosScale, 0>>),
      Object4(<<600 * PosScale, 520 * PosScale>>, <<(3 * PosScale) \div 2, 0>>)>>

\* frames part_004 runs in one behaviour
MaxFrames4 == 900

\* One iteration of the frame loop of main
Frame4 ==
    /\ frames4 < MaxFrames4
    /\ objects4' = StepObjectsFrom4(objects4, <<>>, 1)
    /\ frames4' = frames4 + 1
    /\ UNCHANGED <<objects, isPaused, trailCounter, randState, argOrder,
                   lastTick, frames, resets, objects3, isPaused3, frames3,
                   bodies, framesB, input, output, pc, physicsStep, polled,
                   resets3>>

Init4 ==
    /\ objects4 = CreateObjects4
    /\ frames4 = 0
    /\ objects = <<>>
    /\ argOrder = "ltr"
    /\ randState = 0
    /\ isPaused = FALSE
    /\ trailCounter = 0
    /\ lastTick = NoTick
    /\ frames = 0
    /\ resets = <<>>
    /\ objects3 = <<>>
    /\ isPaused3 = FALSE
    /\ frames3 = 0
    /\ bodies = <<>>
    /\ framesB = 0
    /\ input = <<>>
    /\ output = <<>>
    /\ pc = "top"
    /\ physicsStep = 0
    /\ polled = <<>>
    /\ resets3 = <<>>

Next4 == Frame4

SpecBounce == Init4 /\ [][Next4]_vars

----------------------------------------------------------------------------
(* The frame loop of part_002 main pass by pass: pc is "top" at the head   *)
(* of an iteration, "force", "integrate" and "collide" before the three    *)
(* passes of a physics step, and "poll" inside glfwPollEvents, the only    *)
(* place where GLFW calls KeyCallback.  Rendering changes nothing of the   *)
(* state and is part of the step that enters "poll".                       *)

\* the keys one call of glfwPollEvents may deliver, in their order
KeySequences ==
    {<<>>, <<"SPACE">>, <<"SPACE", "SPACE">>, <<"R">>, <<"SPACE", "R">>,
     <<"R", "SPACE">>, <<"C">>}

\* everything but part_002 is left alone
OthersUnchanged ==
    UNCHANGED <<objects3, isPaused3, frames3, bodies, framesB, input, output,
                resets3,
                objects4, frames4>>

\* The head of an iteration up to the for statement of the physics block:
\* deltaTime is taken, isPaused is tested, physicsSteps and physicsTimeStep
\* are computed and step is set to 0.
LoopTop(deltaTime) ==
    /\ pc = "top"
    /\ frames < MaxFrames
    /\ IF ~isPaused
       THEN /\ lastTick' = [paused |-> FALSE,
                            requested |-> deltaTime,
                            steps |-> PhysicsSteps(deltaTime),
                            stepDt |-> PhysicsTimeStep(deltaTime),
                            applied |-> 0,
                            collisions |-> 0]
            /\ pc' = "force"
            /\ UNCHANGED polled
       ELSE /\ lastTick' = [NoTick EXCEPT !.paused = TRUE,
                                          !.requested = deltaTime]
            /\ pc' = "poll"
            /\ polled' = <<>>
    /\ physicsStep' = 0
    /\ UNCHANGED <<objects, isPaused, trailCounter, randState, argOrder,
                   frames, resets>>
    /\ OthersUnchanged

\* ForceStep going on to the collision pass
ForceStep_ThenCollide ==
    /\ pc = "force"
    /\ objects' = ForcePass(ResetAcceleration(objects))
    /\ pc' = "collide"
    /\ UNCHANGED <<isPaused, trailCounter, randState, argOrder, lastTick,
                   frames, resets, physicsStep, polled>>
    /\ OthersUnchanged

\* "Reset acceleration" and "Calculate gravitational forces"
ForceStep ==
    /\ pc = "force"
    /\ objects' = ForcePass(ResetAcceleration(objects))
    /\ pc' = "integrate"
    /\ UNCHANGED <<isPaused, trailCounter, randState, argOrder, lastTick,
                   frames, resets, physicsStep, polled>>
    /\ OthersUnchanged

\* "Update positions"
IntegrateStep ==
    /\ pc = "integrate"
    /\ \E st \in {IntegratePass([objects |-> objects,
                                 counter |-> trailCounter,
                                 applied |-> lastTick.applied,
                                 collisions |-> lastTick.collisions],
                                1, lastTick.stepDt, isPaused)} :
          /\ objects' = st.objects
          /\ trailCounter' = st.counter
    /\ lastTick' = [lastTick EXCEPT
                        !.applied = @ + (IF isPaused THEN 0
                                         ELSE ActualDt(lastTick.stepDt))]
    /\ pc' = "collide"
    /\ UNCHANGED <<isPaused, randState, argOrder, frames, resets,
                   physicsStep, polled>>
    /\ OthersUnchanged

\* "Collision detection and resolution", step++ and the test of the for
\* statement; after the last step the frame is rendered and glfwPollEvents
\* is entered.
CollideStep ==
    /\ pc = "collide"
    /\ \E st \in {CollisionPass([objects |-> objects,
                                 counter |-> trailCounter,
                                 applied |-> lastTick.applied,
                                 collisions |-> lastTick.collisions],
                                1)} :
          /\ objects' = st.objects
          /\ lastTick' = [lastTick EXCEPT !.collisions = st.collisions]
    /\ physicsStep' = physicsStep + 1
    /\ IF physicsStep + 1 < lastTick.steps
       THEN pc' = "force" /\ UNCHANGED polled
       ELSE pc' = "poll" /\ polled' = <<>>
    /\ UNCHANGED <<isPaused, trailCounter, randState, argOrder, frames,
                   resets>>
    /\ OthersUnchanged

\* PollSpace pausing, whatever the state
PollSpace_OnlyPausing ==
    /\ pc = "poll"
    /\ Append(polled, "SPACE") \in KeySequences
    /\ polled' = Append(polled, "SPACE")
    /\ isPaused' = TRUE
    /\ UNCHANGED <<objects, trailCounter, randState, argOrder, lastTick,
                   frames, resets, pc, physicsStep>>
    /\ OthersUnchanged

\* glfwPollEvents calls KeyCallback for GLFW_KEY_SPACE pressed
PollSpace ==
    /\ pc = "poll"
    /\ Append(polled, "SPACE") \in KeySequences
    /\ polled' = Append(polled, "SPACE")
    /\ isPaused' = ~isPaused
    /\ UNCHANGED <<objects, trailCounter, randState, argOrder, lastTick,
                   frames, resets, pc, physicsStep>>
    /\ OthersUnchanged

\* PollR called from anywhere in the frame loop
PollR_AnyTime ==
    /\ Len(resets) < MaxResets
    /\ Append(polled, "R") \in KeySequences
    /\ polled' = Append(polled, "R")
    /\ \E created \in {CreateObjects(randState, argOrder)} :
          /\ objects' = created[1]
          /\ randState' = created[2]
    /\ resets' = Append(resets, isPaused)
    /\ UNCHANGED <<isPaused, trailCounter, argOrder, lastTick, frames, pc,
                   physicsStep>>
    /\ OthersUnchanged

\* glfwPollEvents calls KeyCallback for GLFW_KEY_R pressed
PollR ==
    /\ pc = "poll"
    /\ Len(resets) < MaxResets
    /\ Append(polled, "R") \in KeySequences
    /\ polled' = Append(polled, "R")
    /\ \E created \in {CreateObjects(randState, argOrder)} :
          /\ objects' = created[1]
          /\ randState' = created[2]
    /\ resets' = Append(resets, isPaused)
    /\ UNCHANGED <<isPaused, trailCounter, argOrder, lastTick, frames, pc,
                   physicsStep>>
    /\ OthersUnchanged

\* glfwPollEvents calls KeyCallback for GLFW_KEY_C pressed
PollC ==
    /\ pc = "poll"
    /\ Append(polled, "C") \in KeySequences
    /\ polled' = Append(polled, "C")
    /\ UNCHANGED <<objects, isPaused, trailCounter, randState, argOrder,
                   lastTick, frames, resets, pc, physicsStep>>
    /\ OthersUnchanged

\* glfwPollEvents returns and the iteration ends
PollDone ==
    /\ pc = "poll"
    /\ pc' = "top"
    /\ frames' = frames + 1
    /\ UNCHANGED <<objects, isPaused, trailCounter, randState, argOrder,
                   lastTick, resets, physicsStep, polled>>
    /\ OthersUnchanged

NextLoop ==
    \/ \E deltaTime \in DeltaTimes : LoopTop(deltaTime)
    \/ ForceStep
    \/ IntegrateStep
    \/ CollideStep
    \/ PollSpace
    \/ PollR
    \/ PollC
    \/ PollDone

SpecLoop == Init /\ [][NextLoop]_vars

----------------------------------------------------------------------------
(* Properties.                                                             *)

\* the step is one iteration of the frame loop of part_002
IsFrame == frames' = frames + 1

\* the bodies of part_002 have the same positions, velocities and trails
\* before and after the step
SameMotion ==
    /\ Len(objects') = Len(objects)
    /\ \A i \in DOMAIN objects :
          /\ objects'[i].position = objects[i].position
          /\ objects'[i].velocity = objects[i].velocity
          /\ objects'[i].trail = objects[i].trail

\* C1: in part_002 no step changes the position or the velocity of a body
\* with fixed = true, whatever the frame time, the number of substeps, the
\* forces computed on it and the collisions it takes part in, with a free
\* partner or with another fixed body; by induction the same holds across
\* any sequence of ticks.
C1_FixedBodyKeepsPositionAndVelocity ==
    [][\A i \in DOMAIN objects :
          (objects[i].fixed /\ i \in DOMAIN objects')
              => /\ objects'[i].fixed
                 /\ objects'[i].position = objects[i].position
                 /\ objects'[i].velocity = objects[i].velocity]_vars

\* a running frame of several substeps has resolved collisions in a scene
\* of a moving fixed body and a free body
C1_Witness ==
    /\ frames > 0
    /\ ~lastTick.paused
    /\ lastTick.steps >= 2
    /\ lastTick.collisions > 0
    /\ \E i, j \in DOMAIN objects :
          /\ objects[i].fixed
          /\ objects[i].velocity # ZeroVec
          /\ ~objects[j].fixed

\* C2: while part_002 is paused a frame, whatever its frame time, leaves
\* every body (position, velocity, acceleration, trail) and the trail
\* counter as they are, and leaves the simulation paused, where the pause
\* key and the reset key are served as before.
C2_PausedFrameIsNoOp ==
    [][(isPaused /\ IsFrame)
         => /\ objects' = objects
            /\ trailCounter' = trailCounter
            /\ isPaused' = isPaused]_vars

\* the last frame ran while paused, a reset was served while paused, and
\* the simulation has been resumed since
C2_Witness ==
    /\ frames > 0
    /\ lastTick.paused
    /\ lastTick.requested > 0
    /\ Len(resets) > 0
    /\ resets[Len(resets)]
    /\ ~isPaused

\* C3: in part_002 a reset (R key), running or paused, replaces the
\* collection by what CreateObjects returns: 14 bodies, every trail empty,
\* every acceleration zero, the first body fixed at the origin; and it
\* leaves isPaused as it was.
C3_ResetReplacesCollection ==
    [][Len(resets') = Len(resets) + 1
         => /\ objects' = CreateObjects(randState, argOrder)[1]
            /\ Len(objects') = 14
            /\ \A i \in DOMAIN objects' :
                  /\ objects'[i].trail = <<>>
                  /\ objects'[i].acceleration = ZeroVec
            /\ objects'[1].fixed
            /\ objects'[1].position = ZeroVec
            /\ isPaused' = isPaused]_vars

\* a running frame has integrated, and a reset served while paused has
\* since emptied every trail
C3_Witness ==
    /\ lastTick.applied > 0
    /\ trailCounter > 0
    /\ resets = <<TRUE>>
    /\ isPaused
    /\ Len(objects) = 14
    /\ \A i \in DOMAIN objects : objects[i].trail = <<>>

\* C4, as the claim states it: after every running frame of a positive
\* frame time, the timesteps updatePosition has integrated with add up to
\* that frame time, up to one time unit of rounding per substep.
C4_AppliedTimeEqualsRequested ==
    (frames > 0 /\ ~lastTick.paused /\ lastTick.requested > 0)
        => Abs(lastTick.applied - lastTick.requested) <= lastTick.steps

\* C5: in every reachable state of part_002, of part_003 and of the 2D
\* backup simulator, every trail is at most as long as its maximum: 1000,
\* 500 and 500.
C5_TrailLengthBounded ==
    /\ \A i \in DOMAIN objects : Len(objects[i].trail) <= maxTrailLength
    /\ \A i \in DOMAIN objects3 : Len(objects3[i].trail) <= maxTrailLength3
    /\ \A i \in DOMAIN bodies : Len(bodies[i].trail) <= MaxTrail2D

\* each of the three programs has run a frame and holds a full trail
C5_Witness ==
    /\ frames > 0
    /\ frames3 > 0
    /\ framesB > 0
    /\ trailCounter > maxTrailLength * TrailEvery
    /\ \E i \in DOMAIN objects : Len(objects[i].trail) = maxTrailLength
    /\ \A i \in DOMAIN objects3 : Len(objects3[i].trail) = maxTrailLength3
    /\ \A i \in DOMAIN bodies : Len(bodies[i].trail) = MaxTrail2D

\* the total momentum of the bodies of part_002, in mass units times
\* velocity units
Momentum(objs) ==
    [c \in {"x", "y", "z"} |->
        objs[1].mass * objs[1].velocity[c] + objs[2].mass * objs[2].velocity[c]]

\* two bodies, none fixed, none with a NaN component
TwoFreeBodies(objs) ==
    /\ Len(objs) = 2
    /\ \A i \in {1, 2} :
          /\ ~objs[i].fixed
          /\ ~IsNaN(objs[i].position)
          /\ ~IsNaN(objs[i].velocity)

\* C6: a running frame of part_002 on two free bodies that do not touch
\* when it starts and that resolves no collision leaves each component of
\* m_1 * v_1 + m_2 * v_2 as it was, up to the rounding of the two velocity
\* updates of each substep (one velocity unit for each body).
C6_MomentumConserved ==
    [][(IsFrame /\ ~isPaused /\ TwoFreeBodies(objects)
            /\ ~CheckCollision(objects[1], objects[2])
            /\ lastTick'.collisions = 0)
         => \A c \in {"x", "y", "z"} :
               Abs(Momentum(objects')[c] - Momentum(objects)[c])
                   <= lastTick'.steps * (objects[1].mass + objects[2].mass)]_vars

\* one running frame of three substeps on two free bodies of different
\* mass, closer than the minimum distance of the force, without collision:
\* gravity has changed the velocity of the first
C6_Witness ==
    /\ frames = 1
    /\ ~lastTick.paused
    /\ lastTick.steps = 3
    /\ lastTick.collisions = 0
    /\ TwoFreeBodies(objects)
    /\ objects[1].mass # objects[2].mass
    /\ objects[1].velocity # SceneVelocity
    /\ Length(VSub(objects[2].position, objects[1].position))
           < 2 * (objects[1].radius + objects[2].radius)

\* ResolveCollision(a, b) finds an overlap
Overlapping(a, b) ==
    a.radius + b.radius - Length(VSub(b.position, a.position)) > 0

\* ResolveCollision(a, b) finds the pair moving apart along its normal
Separating(a, b) ==
    LET delta == VSub(b.position, a.position)
    IN  VelAlongNormal(VSub(b.velocity, a.velocity),
                       CollisionNormal(delta, Length(delta))) > 0

\* C7: ResolveCollision on an overlapping pair whose relative velocity
\* along the collision normal is positive leaves both velocities as they
\* were.
C7_SeparatingPairKeepsVelocities ==
    (output # <<>> /\ Overlapping(input[1], input[2])
        /\ Separating(input[1], input[2]))
        => /\ output[1][1].velocity = input[1].velocity
           /\ output[1][2].velocity = input[2].velocity

\* the call has pushed apart two free bodies that were moving apart
C7_Witness ==
    /\ output # <<>>
    /\ Overlapping(input[1], input[2])
    /\ Separating(input[1], input[2])
    /\ ~input[1].fixed
    /\ ~input[2].fixed
    /\ input[2].velocity # ZeroVec
    /\ output[1][1].position # input[1].position
    /\ output[1][2].position # input[2].position

\* the centres of a and b are at least bound apart (compared in squares,
\* which is exact)
DistAtLeast(a, b, bound) ==
    LET d == VSub(b.position, a.position)
    IN  /\ ~IsNaN(d)
        /\ bound <= 0 \/ Dot(d, d) >= bound * bound

\* C8: after ResolveCollision on an overlapping pair with a free body the
\* centres are at least radius_a + radius_b - 0.002 apart, up to the
\* rounding of the two displacements (one position unit each), also when
\* the centres coincide or are within 0.001 and the normal is (1, 0, 0).
C8_SeparatedUpToTolerance ==
    (output # <<>> /\ Overlapping(input[1], input[2])
        /\ (~input[1].fixed \/ ~input[2].fixed))
        => DistAtLeast(output[1][1], output[1][2],
                       input[1].radius + input[2].radius
                           - 2 * CoincidentDist - 2)

\* the call has separated, along (1, 0, 0), two free bodies whose centres
\* were 0.001 apart the other way, and has left them closer than the sum
\* of the radii
C8_Witness ==
    /\ output # <<>>
    /\ ~input[1].fixed
    /\ ~input[2].fixed
    /\ input[2].position = Vec(-CoincidentDist, 0, 0)
    /\ output[1][2].position.x > output[1][1].position.x
    /\ ~DistAtLeast(output[1][1], output[1][2],
                    input[1].radius + input[2].radius)

\* C9, as the claim states it: a running frame of part_002 whose frame
\* time is zero or negative runs no substep, resolves no collision and
\* leaves every position, velocity and trail as it was.
C9_NonPositiveFrameTimeIsNoOp ==
    [][(IsFrame /\ ~isPaused /\ lastTick'.requested <= 0)
         => /\ lastTick'.steps = 0
            /\ lastTick'.collisions = 0
            /\ SameMotion]_vars

\* C10, as the claim states it: no constructor call returns a body whose
\* mass or radius is zero or negative.
C10_ConstructorRejectsNonPositive ==
    output # <<>> => (output[1].mass > 0 /\ output[1].radius > 0)

\* the number of SPACE keys in a sequence of keys
RECURSIVE Spaces(_)
Spaces(keys) ==
    IF keys = <<>> THEN 0
    ELSE (IF Head(keys) = "SPACE" THEN 1 ELSE 0) + Spaces(Tail(keys))

\* C11: isPaused of part_002 is one of two values, running or paused; each
\* Space key delivered flips it and leaves the bodies and the trail counter
\* as they are; so while glfwPollEvents runs, isPaused is what the frame
\* found it to be after an even number of Space keys (two in a row restore
\* it) and the opposite after an odd number.
C11_ToggleFlipsState ==
    /\ [](isPaused \in BOOLEAN)
    /\ [](pc = "poll"
            => ((isPaused = lastTick.paused) <=> (Spaces(polled) % 2 = 0)))
    /\ [][polled' = Append(polled, "SPACE")
            => /\ isPaused' = ~isPaused
               /\ objects' = objects
               /\ trailCounter' = trailCounter]_vars

\* two Space keys in a row have been delivered after a paused frame that
\* followed a running one, and the simulation is paused again
C11_Witness ==
    /\ pc = "poll"
    /\ polled = <<"SPACE", "SPACE">>
    /\ lastTick.paused
    /\ isPaused
    /\ trailCounter > 0

\* C12: in every reachable state of part_002, at startup and after any
\* frames, pause keys and resets, every body has a mass above zero and a
\* radius above zero.
C12_MassAndRadiusPositive ==
    \A i \in DOMAIN objects :
        /\ objects[i].mass > 0
        /\ objects[i].radius > 0

\* a frame has integrated the bodies a reset has created
C12_Witness ==
    /\ Len(resets) > 0
    /\ frames > 1
    /\ lastTick.applied > 0
    /\ Len(objects) = 14
    /\ \E i \in DOMAIN objects : objects[i].trail # <<>>
    /\ \E i, j \in DOMAIN objects : objects[i].mass # objects[j].mass

\* two free bodies of equal mass, at rest, farther apart than the minimum
\* distance of the force
EqualPairAtRest(objs) ==
    /\ TwoFreeBodies(objs)
    /\ objs[1].mass = objs[2].mass
    /\ objs[1].velocity = ZeroVec
    /\ objs[2].velocity = ZeroVec
    /\ Length(VSub(objs[2].position, objs[1].position))
           > (objs[1].radius + objs[2].radius) * 2

\* C13: a running frame of part_002 with a frame time above zero on two
\* free bodies of equal mass at rest, farther apart than the minimum
\* distance, leaves both with a velocity that is not zero, that points to
\* the other body, and that is the negative of the other's velocity.
C13_EqualPairAttracts ==
    [][(IsFrame /\ ~isPaused /\ lastTick'.requested > 0
            /\ EqualPairAtRest(objects))
         => /\ Len(objects') = 2
            /\ ~IsNaN(objects'[1].velocity)
            /\ objects'[1].velocity # ZeroVec
            /\ objects'[2].velocity = VNeg(objects'[1].velocity)
            /\ Dot(objects'[1].velocity,
                   VSub(objects[2].position, objects[1].position)) > 0
            /\ Dot(objects'[2].velocity,
                   VSub(objects[1].position, objects[2].position)) > 0]_vars

\* the bodies of mass 10 and radius 1 that were at rest 10 units apart move
\* toward each other after a frame of several steps
C13_Witness ==
    /\ frames = 1
    /\ ~lastTick.paused
    /\ lastTick.steps > 1
    /\ lastTick.collisions = 0
    /\ Len(objects) = 2
    /\ objects[1].mass = 10 * MassScale
    /\ objects[1].radius = RestRadius
    /\ objects[1].position = ZeroVec
    /\ objects[2].position = Vec(100000, 0, 0)
    /\ objects[1].velocity.x > 0
    /\ objects[2].velocity.x < 0

\* C14, as the claim states it: in part_003 every R key, running or
\* paused, replaces the body collection by what CreateObjects returns and
\* leaves isPaused as it was.
C14_ResetReplacesCollection3 ==
    [][Len(resets3') = Len(resets3) + 1
         => /\ objects3' = CreateObjects3
            /\ isPaused3' = isPaused3]_vars

\* a / b rounded up, for a >= 0 and b > 0
CeilDiv(a, b) == (a + b - 1) \div b

\* C15, as the claim states it: after every running frame of part_002 with
\* a frame time above zero, the number of physics steps is the frame time
\* over MAX_TIMESTEP rounded up, and the timestep of each is the frame time
\* over that number.
C15_StepsAreCeiling ==
    (frames > 0 /\ ~lastTick.paused /\ lastTick.requested > 0)
        => /\ lastTick.steps = CeilDiv(lastTick.requested, MAX_TIMESTEP)
           /\ lastTick.stepDt = Quot(lastTick.requested, lastTick.steps)

\* no component of after - before is larger than the component of rate
\* times MAX_TIMESTEP, with perUnit rate units times time units in a unit
\* of before and after
WithinMaxTimestep(before, after, rate, perUnit) ==
    /\ ~IsNaN(after)
    /\ \A c \in {"x", "y", "z"} :
          Abs(after[c] - before[c])
              <= MulQuot(Abs(rate[c]), MAX_TIMESTEP, perUnit)

\* C16: every call of updatePosition of part_002, whatever timestep it is
\* handed, changes the velocity by at most the acceleration times
\* MAX_TIMESTEP and the position by at most the new velocity times
\* MAX_TIMESTEP.
C16_TimestepClamped ==
    output # <<>>
        => /\ WithinMaxTimestep(input.obj.velocity, output[1][1].velocity,
                                input.obj.acceleration, AccTimePerVel)
           /\ WithinMaxTimestep(input.obj.position, output[1][1].position,
                                output[1][1].velocity, TimeScale)

\* a free body has been integrated with a timestep of one second while
\* the simulation runs: velocity and position have changed
C16_Witness ==
    /\ output # <<>>
    /\ input.dt = 100000
    /\ ~input.paused
    /\ ~input.obj.fixed
    /\ output[1][1].velocity # input.obj.velocity
    /\ output[1][1].position # input.obj.position
    /\ output[1][2] = input.counter + 1

\* the number of bodies updatePosition integrates while the simulation
\* runs: those that are not fixed
FreeCount(objs) == Cardinality({i \in DOMAIN objs : ~objs[i].fixed})

\* no body has been integrated or moved by a collision in the step
NoneMoved ==
    /\ trailCounter' = trailCounter
    /\ Len(objects') = Len(objects)
    /\ \A i \in DOMAIN objects :
          /\ objects'[i].position = objects[i].position
          /\ objects'[i].velocity = objects[i].velocity

\* C17: in every physics step of a running frame of part_002 the force
\* pass comes first and gives every free body its acceleration while no
\* body is integrated and no pair resolved; then the integration pass
\* calls updatePosition once for every free body while no pair is
\* resolved; then the collision pass runs, integrating nobody; after it
\* the next step starts with the force pass again, or the frame ends.
C17_ForceIntegrateCollide ==
    [][/\ pc = "force"
          => /\ pc' = "integrate"
             /\ NoneMoved
             /\ \A i \in DOMAIN objects :
                   ~objects[i].fixed => objects'[i].acceleration # ZeroVec
             /\ lastTick'.collisions = lastTick.collisions
       /\ pc = "integrate"
          => /\ pc' = "collide"
             /\ trailCounter' = trailCounter + FreeCount(objects)
             /\ \A i \in DOMAIN objects :
                   objects'[i].acceleration = ZeroVec
             /\ lastTick'.collisions = lastTick.collisions
       /\ pc = "collide"
          => /\ trailCounter' = trailCounter
             /\ physicsStep' = physicsStep + 1
             /\ IF physicsStep' < lastTick.steps THEN pc' = "force"
                ELSE pc' = "poll"
       /\ pc' = "integrate" => pc = "force"
       /\ pc' = "collide" => pc = "integrate"]_vars

\* the second physics step of a frame is about to start: every free body
\* has been integrated once
C17_Witness ==
    /\ pc = "force"
    /\ physicsStep = 1
    /\ lastTick.steps = 2
    /\ trailCounter = FreeCount(objects)
    /\ FreeCount(objects) = 13

\* main is inside the physics block of a frame
InPhysics == pc \in {"force", "integrate", "collide"}

\* C18: in part_002 a key is delivered, isPaused toggled and the body
\* collection replaced only inside glfwPollEvents, never while the passes
\* of a frame run; so the passes only run while the simulation is not
\* paused, and the first force pass after a reset works on the bodies
\* CreateObjects has returned, with empty trails.
C18_KeysOnlyBetweenTicks ==
    /\ [](InPhysics => ~isPaused /\ ~lastTick.paused)
    /\ []((pc = "force" /\ physicsStep = 0 /\ polled # <<>>
              /\ \E k \in DOMAIN polled : polled[k] = "R")
            => /\ Len(objects) = 14
               /\ \A i \in DOMAIN objects : objects[i].trail = <<>>)
    /\ [][(isPaused' # isPaused \/ resets' # resets
              \/ (polled' # polled /\ polled' # <<>>))
            => (pc = "poll" /\ pc' = "poll")]_vars
    /\ [][InPhysics => (Len(objects') = Len(objects)
                        /\ randState' = randState)]_vars

\* a reset delivered at the end of a running frame is in effect when the
\* force pass of the next frame is about to start
C18_Witness ==
    /\ pc = "force"
    /\ physicsStep = 0
    /\ polled = <<"R">>
    /\ frames = 1
    /\ trailCounter > 0
    /\ \A i \in DOMAIN objects : objects[i].trail = <<>>

\* ResolveCollision(a, b) finds the pair approaching along its normal
Approaching(a, b) ==
    LET delta == VSub(b.position, a.position)
    IN  VelAlongNormal(VSub(b.velocity, a.velocity),
                       CollisionNormal(delta, Length(delta))) < 0

\* C19, as the claim states it: the collision pass calls ResolveCollision
\* on a pair only if the distance of the centres is at most the sum of the
\* radii, and for every such pair with a free body, tangent pairs
\* included, the call changes a velocity when the pair is approaching.
C19_DetectedPairIsResolved ==
    output # <<>>
        => /\ Length(VSub(input[2].position, input[1].position))
                  <= input[1].radius + input[2].radius
           /\ (Approaching(input[1], input[2])
                  /\ (~input[1].fixed \/ ~input[2].fixed))
                 => \/ output[1][1].velocity # input[1].velocity
                    \/ output[1][2].velocity # input[2].velocity

\* the collision normal ResolveCollision(a, b) uses
NormalOf(a, b) ==
    CollisionNormal(VSub(b.position, a.position),
                    Length(VSub(b.position, a.position)))

\* 0.98 * (v + sign * 1.8 * (-vn) * share * n), with share = num / den the
\* part of the impulse the body takes: 1.8 = 1 + e for e = 0.8
Bounced(v, n, vn, num, den, sign) ==
    [c \in {"x", "y", "z"} |->
        Quot(98 * (v[c] + sign * MulQuot(MulQuot(-18 * vn, num, 10 * den),
                                         n[c], UnitScale)),
             100)]

\* every component of the velocity v is within tol units of expected
Near(v, expected, tol) ==
    /\ ~IsNaN(v)
    /\ \A c \in {"x", "y", "z"} : Abs(v[c] - expected[c]) <= tol

\* the velocities after ResolveCollision(a, b), out = <<a, b>> after the
\* call, are those of the impulse with e = 0.8 and the damping 0.98, for
\* the normal n and the relative velocity vn along it before the call
ImpulseApplied(a, b, out, n, vn) ==
    IF ~a.fixed /\ ~b.fixed
    THEN /\ Near(out[1].velocity,
                 Bounced(a.velocity, n, vn, b.mass, a.mass + b.mass, -1), 2)
         /\ Near(out[2].velocity,
                 Bounced(b.velocity, n, vn, a.mass, a.mass + b.mass, 1), 2)
         /\ VelAlongNormal(VSub(out[2].velocity, out[1].velocity), n) >= 0
         /\ Abs(VelAlongNormal(VSub(out[2].velocity, out[1].velocity), n)
                    - Quot(-98 * 8 * vn, 1000)) <= 8 + Abs(vn) \div 1000
    ELSE IF a.fixed /\ ~b.fixed
    THEN /\ out[1].velocity = a.velocity
         /\ Near(out[2].velocity, Bounced(b.velocity, n, vn, 1, 1, 1), 2)
    ELSE IF ~a.fixed /\ b.fixed
    THEN /\ out[2].velocity = b.velocity
         /\ Near(out[1].velocity, Bounced(a.velocity, n, vn, 1, 1, -1), 2)
    ELSE /\ out[1].velocity = a.velocity
         /\ out[2].velocity = b.velocity

\* C20: ResolveCollision on an overlapping pair whose relative velocity vn
\* along the normal n is zero or negative sets the velocities of two free
\* bodies to 0.98 * (v_a - j * n / m_a) and 0.98 * (v_b + j * n / m_b)
\* with j = -(1 + 0.8) * vn / (1 / m_a + 1 / m_b), so that the relative
\* velocity along n is -0.98 * 0.8 * vn afterwards, which is not negative;
\* a fixed body keeps its velocity and the free body opposite takes the
\* whole impulse (all up to the rounding of the velocity updates and of
\* the components of n, a thousandth of vn at most).
C20_ImpulseWithRestitution ==
    (output # <<>> /\ Overlapping(input[1], input[2])
        /\ ~Separating(input[1], input[2]))
        => ImpulseApplied(input[1], input[2], output[1],
                          NormalOf(input[1], input[2]),
                          VelAlongNormal(VSub(input[2].velocity,
                                              input[1].velocity),
                                         NormalOf(input[1], input[2])))

\* the call has bounced two free bodies of different mass that were
\* approaching across the axes: they now move apart
C20_Witness ==
    /\ output # <<>>
    /\ Overlapping(input[1], input[2])
    /\ Approaching(input[1], input[2])
    /\ ~input[1].fixed
    /\ ~input[2].fixed
    /\ input[1].mass # input[2].mass
    /\ input[2].position.y # 0
    /\ Separating(output[1][1], output[1][2])

\* the overlap ResolveCollision(a, b) finds
OverlapOf(a, b) ==
    a.radius + b.radius - Length(VSub(b.position, a.position))

\* every component of m1 * d1 + m2 * d2 is within tol of zero
Balanced(m1, d1, m2, d2, tol) ==
    \A c \in {"x", "y", "z"} : Abs(m1 * d1[c] + m2 * d2[c]) <= tol

\* the displacements dpa of a and dpb of b split overlap along n inversely
\* to mass; a fixed body stays and the free body opposite takes it whole
OverlapSplit(a, b, dpa, dpb, n, overlap) ==
    IF ~a.fixed /\ ~b.fixed
    THEN /\ Balanced(a.mass, dpa, b.mass, dpb, a.mass + b.mass)
         /\ Dot(dpa, dpb) < 0
         /\ a.mass > b.mass => Length(dpa) < Length(dpb)
         /\ a.mass < b.mass => Length(dpa) > Length(dpb)
         /\ Near(VSub(dpb, dpa), VScale(n, overlap, UnitScale), 2)
         /\ Abs(Length(dpa) + Length(dpb) - overlap) <= 3
    ELSE IF a.fixed /\ ~b.fixed
    THEN /\ dpa = ZeroVec
         /\ Near(dpb, VScale(n, overlap, UnitScale), 1)
         /\ Abs(Length(dpb) - overlap) <= 3
    ELSE IF ~a.fixed /\ b.fixed
    THEN /\ dpb = ZeroVec
         /\ Near(dpa, VNeg(VScale(n, overlap, UnitScale)), 1)
         /\ Abs(Length(dpa) - overlap) <= 3
    ELSE /\ dpa = ZeroVec
         /\ dpb = ZeroVec

\* C21: ResolveCollision on an overlapping pair displaces two free bodies
\* in opposite directions along the normal, by lengths that sum to the
\* overlap and with m_a * dp_a + m_b * dp_b = 0, so that the heavier body
\* moves less; with one body fixed the other is displaced by the whole
\* overlap; with both fixed no position changes (lengths up to 3 position
\* units, components up to the rounding of one unit per displacement).
C21_OverlapSplitByMass ==
    (output # <<>> /\ Overlapping(input[1], input[2]))
        => OverlapSplit(input[1], input[2],
                        VSub(output[1][1].position, input[1].position),
                        VSub(output[1][2].position, input[2].position),
                        NormalOf(input[1], input[2]),
                        OverlapOf(input[1], input[2]))

\* the call has pushed apart, across the axes, two free bodies of masses 1
\* and 3: the lighter one has moved further
C21_Witness ==
    /\ output # <<>>
    /\ Overlapping(input[1], input[2])
    /\ ~input[1].fixed
    /\ ~input[2].fixed
    /\ input[1].mass < input[2].mass
    /\ input[2].position.y # 0
    /\ Length(VSub(output[1][1].position, input[1].position))
           > 2 * Length(VSub(output[1][2].position, input[2].position))
    /\ output[1][2].position # input[2].position

\* the calls of updatePosition made so far on each free body: every
\* integration pass calls it once on every body, and every call on a free
\* body of a running frame counts one up in trailCounter
CallsPerBody == trailCounter \div FreeCount(objects)

\* C22, as the claim states it: the trail of every free body of part_002
\* holds one entry per three calls of updatePosition made on that body
\* (after c calls, between c / 3 rounded down and c / 3 rounded up),
\* whatever the number of bodies.
C22_TrailEntryPerThreeCalls ==
    \A i \in DOMAIN objects :
        ~objects[i].fixed
            => /\ CallsPerBody \div 3 <= Len(objects[i].trail)
               /\ Len(objects[i].trail) <= (CallsPerBody + 2) \div 3

\* G * m_i * m_j / max(d, 2 * (r_i + r_j))^2 in force units, for the
\* constant g in thousandths
NewtonMagnitude(g, self, other) ==
    MulQuot(MulQuot(g * self.mass, ForceUnits,
                    Max(Length(VSub(other.position, self.position)),
                        2 * (self.radius + other.radius))),
            other.mass,
            Max(Length(VSub(other.position, self.position)),
                2 * (self.radius + other.radius)))

\* force is finite, has the magnitude expected up to a thousandth and 3
\* units, and points from self toward other
ForceToward(self, other, force, expected) ==
    /\ ~IsNaN(force)
    /\ Abs(Length(force) - expected) <= 3 + expected \div 1000
    /\ expected >= 1000
          => Near(Normalize(force),
                  Normalize(VSub(other.position, self.position)), 5)

\* C23, as the claim states it: for two distinct bodies at any positions,
\* identical centres included, calculateGravitationalForce of part_002
\* hands applyForce a finite force of magnitude G * m_i * m_j /
\* max(d, 2 * (r_i + r_j))^2 directed from the body toward the other, and
\* in part_002 and part_003 alike neither the force nor the acceleration
\* of the body is undefined after the call.
C23_ForceDefinedEverywhere ==
    output # <<>>
        => /\ ~IsNaN(output[2])
           /\ ~IsNaN(output[1].acceleration)
           /\ output[3] = "part_002"
                 => ForceToward(input[1], input[2], output[2],
                                NewtonMagnitude(G, input[1], input[2]))

\* every object of objs, fixed or not, has the zero acceleration
AllAccelerationsZero(objs) ==
    \A i \in DOMAIN objs : objs[i].acceleration = ZeroVec

\* C24: whenever main of part_002 is about to run the force pass of a
\* physics step (the first step of a frame or a later one, after start-up,
\* after a reset, after the pause was lifted), the acceleration of every
\* body, fixed or not, is the zero vector: it is so when the step begins,
\* cleared by the previous integration or by the constructor, and it is
\* so after the "Reset acceleration" loop that precedes the force pass.
C24_AccelerationZeroBeforeForces ==
    pc = "force"
        => /\ AllAccelerationsZero(objects)
           /\ AllAccelerationsZero(ResetAcceleration(objects))

\* main is about to run the force pass of the second step of the frame
\* that follows a reset: three integration passes have been made, the last
\* of them, after forces were accumulated, in this frame
C24_Witness ==
    /\ pc = "force"
    /\ physicsStep = 1
    /\ resets # <<>>
    /\ lastTick.applied > 0
    /\ trailCounter = 3 * FreeCount(objects)
    /\ objects[1].fixed
    /\ ~objects[2].fixed
    /\ objects[2].velocity.x # 0

\* after == before + rate * dt in every component, rate * dt being
\* perUnit units of after
Advanced(before, after, rate, dt, perUnit) ==
    /\ ~IsNaN(after)
    /\ \A c \in {"x", "y", "z"} :
          after[c] = before[c] + MulQuot(rate[c], dt, perUnit)

\* C25: one call updatePosition(dt) with 0 < dt <= MAX_TIMESTEP on a free
\* body while the simulation runs sets velocity' = velocity +
\* acceleration * dt, position' = position + velocity' * dt, with the
\* velocity just updated, and acceleration' = 0.
C25_SemiImplicitEuler ==
    (output # <<>> /\ ~input.obj.fixed /\ ~input.paused
        /\ 0 < input.dt /\ input.dt <= MAX_TIMESTEP)
        => /\ Advanced(input.obj.velocity, output[1][1].velocity,
                       input.obj.acceleration, input.dt, AccTimePerVel)
           /\ Advanced(input.obj.position, output[1][1].position,
                       output[1][1].velocity, input.dt, TimeScale)
           /\ output[1][1].acceleration = ZeroVec

\* a free, accelerated body has been integrated over 0.6 ms while the
\* simulation runs, and is not where its velocity before the call would
\* have taken it
C25_Witness ==
    /\ output # <<>>
    /\ ~input.obj.fixed
    /\ ~input.paused
    /\ input.dt = 60
    /\ input.obj.acceleration.y # 0
    /\ input.obj.velocity.y # 0
    /\ output[1][1].position.y
           # input.obj.position.y
               + MulQuot(input.obj.velocity.y, input.dt, TimeScale)
    /\ output[1][1].acceleration = ZeroVec

\* G * m_other / max(d, 2 * (r_self + r_other))^2 in acceleration units
\* along the unit vector from self to other
PullOf(self, other) ==
    VScale(Normalize(VSub(other.position, self.position)),
           MulQuot(MulQuot(G * other.mass, 1000,
                           Max(Length(VSub(other.position, self.position)),
                               2 * (self.radius + other.radius))),
                   1000,
                   Max(Length(VSub(other.position, self.position)),
                       2 * (self.radius + other.radius))),
           UnitScale)

\* sum + the pulls on objs[i] of the bodies j .. Len(objs) other than i
\* that are fixed, if withFixed, or free
RECURSIVE PullsOn(_, _, _, _, _)
PullsOn(objs, i, j, withFixed, sum) ==
    IF j > Len(objs) \/ ~Strict(sum) THEN sum
    ELSE PullsOn(objs, i, j + 1, withFixed,
                 IF j # i /\ (withFixed \/ ~objs[j].fixed)
                 THEN VAdd(sum, PullOf(objs[i], objs[j]))
                 ELSE sum)

\* C26: after every force pass of part_002 the acceleration of each free
\* body is the sum of G * m_j / d^2 toward every other body j, the fixed
\* ones included (up to 3 acceleration units of rounding per body), and
\* the acceleration of each fixed body is zero.
C26_FixedBodyExertsGravity ==
    pc = "integrate"
        => \A i \in DOMAIN objects :
              IF objects[i].fixed THEN objects[i].acceleration = ZeroVec
              ELSE Near(objects[i].acceleration,
                        PullsOn(objects, i, 1, TRUE, ZeroVec),
                        3 * Len(objects))

\* a force pass has run after a reset: the innermost planet is
\* accelerated toward the fixed sun, by far more than the free bodies
\* alone would accelerate it
C26_Witness ==
    /\ pc = "integrate"
    /\ resets # <<>>
    /\ objects[1].fixed
    /\ objects[1].acceleration = ZeroVec
    /\ ~objects[2].fixed
    /\ objects[2].acceleration.x < -100000
    /\ ~Near(objects[2].acceleration,
             PullsOn(objects, 2, 1, FALSE, ZeroVec), 1000)

\* no two bodies of objs, one of them free, overlap by more than tol
NoOverlapBeyond(objs, tol) ==
    \A i, j \in DOMAIN objs :
        (i < j /\ (~objs[i].fixed \/ ~objs[j].fixed))
            => DistAtLeast(objs[i], objs[j],
                           objs[i].radius + objs[j].radius - tol)

\* C27, as the claim states it: at the end of the collision pass of a
\* physics step of part_002, whatever the number of bodies, no two bodies
\* of which one is free overlap by more than a small tolerance (0.0022).
C27_NoOverlapAfterCollisionPass ==
    (frames > 0 /\ ~lastTick.paused /\ lastTick.steps > 0)
        => NoOverlapBeyond(objects, 2 * CoincidentDist + 2)

\* the relative velocity of a and b along the collision normal
\* ResolveCollision(a, b) uses
NormalVelocity(a, b) ==
    VelAlongNormal(VSub(b.velocity, a.velocity), NormalOf(a, b))

\* C28, as the claim states it: ResolveCollision on an overlapping pair
\* whose relative velocity along the collision normal is exactly zero, at
\* rest or in tangential contact, leaves both velocities as they were.
C28_ZeroNormalVelocityKeepsVelocities ==
    (output # <<>> /\ Overlapping(input[1], input[2])
        /\ NormalVelocity(input[1], input[2]) = 0)
        => /\ output[1][1].velocity = input[1].velocity
           /\ output[1][2].velocity = input[2].velocity

\* objs and others hold the same bodies, one by one: position, velocity,
\* mass, radius and fixed flag
SameBodies(objs, others) ==
    /\ Len(objs) = Len(others)
    /\ \A i \in DOMAIN objs :
          /\ objs[i].position = others[i].position
          /\ objs[i].velocity = others[i].velocity
          /\ objs[i].mass = others[i].mass
          /\ objs[i].radius = others[i].radius
          /\ objs[i].fixed = others[i].fixed

\* C29, as the claim states it: the bodies a reset (R key) of part_002
\* installs are, one by one, those created at program start, for the seed
\* srand was given.
C29_ResetReproducesStart ==
    [][Len(resets') = Len(resets) + 1
         => \E seed \in Seeds :
               SameBodies(objects', CreateObjects(seed, argOrder)[1])]_vars

\* obj is beyond a wall of the axis and its velocity on that axis points
\* further out
LeavingScreen(obj, axis, size) ==
    \/ obj.position[axis] - obj.radius < 0 /\ obj.velocity[axis] < 0
    \/ obj.position[axis] + obj.radius > size * PosScale
          /\ obj.velocity[axis] > 0

\* C30, as the claim states it: at the end of every frame of part_004 no
\* ball that is beyond a wall (position - radius < 0 or position + radius
\* > screen size on an axis) has a velocity on that axis that points
\* further outside.
C30_BeyondWallMovesInward ==
    \A i \in DOMAIN objects4 :
        /\ ~LeavingScreen(objects4[i], 1, screenWidth)
        /\ ~LeavingScreen(objects4[i], 2, screenHeight)

=============================================================================
